---- MODULE Spec2Model ----
(***************************************************************************)
(* BME280 driver for the PIC18F25K50 (mikroC PRO for PIC) and the rotating *)
(* display program that uses it.                                           *)
(*                                                                         *)
(* Integer widths are those of the mikroC PRO for PIC compiler:            *)
(*   char, short : 8 bit     int : 16 bit     long : 32 bit                *)
(* Arithmetic on long wraps modulo 2^32 and "/" truncates toward zero.     *)
(***************************************************************************)
EXTENDS Integers, Sequences, FiniteSets, TLC

(***************************************************************************)
(* Bounds of the model                                                     *)
(***************************************************************************)
\* transactions in which the slave fails to acknowledge a byte, per run
MaxNacks == 1
\* iterations of one polling loop that find the flag still set, per call
MaxPolls == 2
\* driver operations a free caller calls one after the other
MaxCalls == 3

(***************************************************************************)
(* bme280.h                                                                *)
(***************************************************************************)
BME280_ADDR_LOW == 236
BME280_ADDR_HIGH == 238
BME280_CHIP_ID == 96
BME280_REG_DIG_T1 == 136
BME280_REG_DIG_T2 == 138
BME280_REG_DIG_T3 == 140
BME280_REG_DIG_P1 == 142
BME280_REG_DIG_P2 == 144
BME280_REG_DIG_P3 == 146
BME280_REG_DIG_P4 == 148
BME280_REG_DIG_P5 == 150
BME280_REG_DIG_P6 == 152
BME280_REG_DIG_P7 == 154
BME280_REG_DIG_P8 == 156
BME280_REG_DIG_P9 == 158
BME280_REG_DIG_H1 == 161
BME280_REG_DIG_H2 == 225
BME280_REG_DIG_H3 == 227
BME280_REG_DIG_H4 == 228
BME280_REG_DIG_H5 == 229
BME280_REG_DIG_H6 == 231
BME280_REG_CHIPID == 208
BME280_REG_SOFTRESET == 224
BME280_REG_CTRLHUM == 242
BME280_REG_STATUS == 243
BME280_REG_CONTROL == 244
BME280_REG_CONFIG == 245
BME280_REG_PRESS_MSB == 247
\* the soft-reset command byte
SOFTRESET_CMD == 182

MODE_SLEEP == 0
MODE_FORCED == 1
MODE_NORMAL == 3
bme280_mode == {MODE_SLEEP, MODE_FORCED, MODE_NORMAL}
SAMPLING_X1 == 1
bme280_sampling == 0 .. 5
FILTER_OFF == 0
bme280_filter == 0 .. 4
STANDBY_0_5 == 0
standby_time == 0 .. 7

(***************************************************************************)
(* C integer arithmetic                                                    *)
(***************************************************************************)
Pow2(n) == 2 ^ n

\* a & b and a | b on non-negative values, bit by bit
BitAnd(a, b) ==
    LET and[x \in Nat, y \in Nat] ==
            IF x = 0 \/ y = 0 THEN 0
            ELSE (x % 2) * (y % 2) + 2 * and[x \div 2, y \div 2]
    IN  and[a, b]

BitOr(a, b) ==
    LET or[x \in Nat, y \in Nat] ==
            IF x = 0 THEN y
            ELSE IF y = 0 THEN x
            ELSE (IF x % 2 = 1 \/ y % 2 = 1 THEN 1 ELSE 0)
                 + 2 * or[x \div 2, y \div 2]
    IN  or[a, b]

U8(x) == x % 256
U16(x) == x % 65536
S8(x) == IF U8(x) >= 128 THEN U8(x) - 256 ELSE U8(x)
S16(x) == IF U16(x) >= 32768 THEN U16(x) - 65536 ELSE U16(x)

\* a << n and a >> n on an unsigned value of w bits (w <= 24)
Shl(a, n, w) == (a * Pow2(n)) % Pow2(w)
Shr(a, n) == a \div Pow2(n)

(***************************************************************************)
(* long and unsigned long.  A 32-bit word is held as the integer in        *)
(* -2^31 .. 2^31-1 with its bit pattern: a long is its value, an unsigned  *)
(* long u >= 2^31 is held as u - 2^32.  The operators work on 16-bit       *)
(* halves so that no intermediate leaves that range.                       *)
(***************************************************************************)
Hi16(a) == a \div 65536
Lo16(a) == a % 65536
Word(hi, lo) == S16(hi) * 65536 + lo

Add32(a, b) ==
    LET lo == Lo16(a) + Lo16(b)
    IN  Word(Hi16(a) + Hi16(b) + (lo \div 65536), lo % 65536)
Sub32(a, b) ==
    LET lo == Lo16(a) - Lo16(b)
    IN  Word(Hi16(a) - Hi16(b) + (lo \div 65536), lo % 65536)

\* the 32-bit product of two 16-bit halves, as halves
Mul16(a, b) ==
    LET x == (a % 256) * b
        y == (a \div 256) * b
        z == (y % 256) * 256 + x
    IN  [hi |-> (y \div 256) + (z \div 65536), lo |-> z % 65536]
\* a product taken in int, 16 bits wide, as without the casts to long
Mul32_Int(a, b) == S16(Mul16(Lo16(a), Lo16(b)).lo)

\* the low 32 bits of the product (the same for long and unsigned long)
Mul32(a, b) ==
    LET a1 == U16(Hi16(a))
        b1 == U16(Hi16(b))
        p == Mul16(Lo16(a), Lo16(b))
        cross == Mul16(a1, Lo16(b)).lo + Mul16(Lo16(a), b1).lo
    IN  Word(p.hi + cross, p.lo)

\* a division that rounds toward minus infinity, as >> on a negative long
CDiv_Floor(a, b) == a \div b

\* long / b for a constant b > 0: the quotient truncated toward zero
CDiv(a, b) == IF a >= 0 THEN a \div b ELSE (a + (b - 1)) \div b

\* unsigned long a < b
ULess(a, b) == IF (a < 0) = (b < 0) THEN a < b ELSE b < 0
\* unsigned long a / b, b # 0
UDiv32(a, b) ==
    IF b < 0 THEN (IF ULess(a, b) THEN 0 ELSE 1)
    ELSE IF a >= 0 THEN a \div b
    ELSE LET h == ((a \div 2) + 1073741824) + 1073741824
             q1 == h \div b
             r1 == h % b
             e == IF r1 + (a % 2) >= b - r1 THEN 1 ELSE 0
         IN  Add32(Add32(q1, q1), e)

(***************************************************************************)
(* The sensor on the bus.  Its calibration memory is one of CalImages; its *)
(* status bits change on their own; its data registers are an input of     *)
(* each burst read.                                                        *)
(***************************************************************************)
\* calibration coefficients as the factory wrote them; e4, e5, e6 are the
\* raw bytes of registers 0xE4..0xE6 that pack dig_H4 and dig_H5
CalImages ==
    << [dig_T1 |-> 27504, dig_T2 |-> 26435, dig_T3 |-> -1000,
        dig_P1 |-> 36477, dig_P2 |-> -10685, dig_P3 |-> 3024,
        dig_P4 |-> 2855, dig_P5 |-> 140, dig_P6 |-> -7,
        dig_P7 |-> 15500, dig_P8 |-> -14600, dig_P9 |-> 6000,
        dig_H1 |-> 75, dig_H2 |-> 362, dig_H3 |-> 0,
        e4 |-> 19, e5 |-> 43, e6 |-> 3, dig_H6 |-> 30],
       [dig_T1 |-> 28485, dig_T2 |-> -26292, dig_T3 |-> 50,
        dig_P1 |-> 0, dig_P2 |-> 0, dig_P3 |-> 3024,
        dig_P4 |-> -8013, dig_P5 |-> -68, dig_P6 |-> -7,
        dig_P7 |-> 9900, dig_P8 |-> -10230, dig_P9 |-> 4285,
        dig_H1 |-> 255, dig_H2 |-> -370, dig_H3 |-> 200,
        e4 |-> 200, e5 |-> 158, e6 |-> 129, dig_H6 |-> -30] >>

CalWordNames ==
    << "dig_T1", "dig_T2", "dig_T3", "dig_P1", "dig_P2", "dig_P3",
       "dig_P4", "dig_P5", "dig_P6", "dig_P7", "dig_P8", "dig_P9" >>

\* the byte the calibration memory c holds at register reg
CalRegByte(c, reg) ==
    IF reg >= BME280_REG_DIG_T1 /\ reg <= BME280_REG_DIG_P9 + 1
    THEN LET w == U16(c[CalWordNames[((reg - BME280_REG_DIG_T1) \div 2) + 1]])
         IN  IF reg % 2 = 0 THEN w % 256 ELSE w \div 256
    ELSE IF reg = BME280_REG_DIG_H1 THEN c.dig_H1
    ELSE IF reg = BME280_REG_DIG_H2 THEN U16(c.dig_H2) % 256
    ELSE IF reg = BME280_REG_DIG_H2 + 1 THEN U16(c.dig_H2) \div 256
    ELSE IF reg = BME280_REG_DIG_H3 THEN c.dig_H3
    ELSE IF reg = BME280_REG_DIG_H4 THEN c.e4
    ELSE IF reg = BME280_REG_DIG_H5 THEN c.e5
    ELSE IF reg = BME280_REG_DIG_H5 + 1 THEN c.e6
    ELSE IF reg = BME280_REG_DIG_H6 THEN U8(c.dig_H6)
    ELSE 0

\* the byte the device d returns for register reg
DevReg(d, reg) ==
    IF reg = BME280_REG_CHIPID THEN d.chip_id
    ELSE IF reg = BME280_REG_STATUS THEN d.status
    ELSE IF reg = BME280_REG_CTRLHUM THEN d.ctrl_hum
    ELSE IF reg = BME280_REG_CONTROL THEN d.ctrl_meas
    ELSE IF reg = BME280_REG_CONFIG THEN d.config
    ELSE CalRegByte(d.cal, reg)

\* the device d after an acknowledged write of data to register reg
DevWrite(d, reg, data) ==
    IF reg = BME280_REG_SOFTRESET /\ data = SOFTRESET_CMD
    THEN [d EXCEPT !.ctrl_hum = 0, !.ctrl_meas = 0, !.config = 0, !.status = 1]
    ELSE IF reg = BME280_REG_CTRLHUM THEN [d EXCEPT !.ctrl_hum = data]
    ELSE IF reg = BME280_REG_CONTROL THEN [d EXCEPT !.ctrl_meas = data]
    ELSE IF reg = BME280_REG_CONFIG THEN [d EXCEPT !.config = data]
    ELSE d

\* status values: bit 0 (im_update) and bit 3 (measuring)
\* chip identities: BME280, BMP280, none
ChipIds == {96, 88, 0}
\* where the sensor answers: SDO low, SDO high, nowhere
DevAddrs == {BME280_ADDR_LOW, BME280_ADDR_HIGH, 0}
\* data registers 0xF7..0xFE as a burst read may find them
BurstSamples ==
    { <<101, 90, 192, 126, 237, 0, 110, 48>>,
      <<75, 12, 16, 131, 4, 240, 128, 0>>,
      <<255, 255, 240, 0, 0, 0, 255, 255>>,
      <<0, 0, 0, 255, 255, 240, 0, 0>> }

(***************************************************************************)
(* The I2C engine (mikroC I2C library): the primitives a transaction       *)
(* issues, as they appear on the bus.                                      *)
(*   nk = 0: the slave acknowledges every byte written to it               *)
(*   nk = k: it acknowledges none from the k-th byte written on; it then   *)
(*           ignores the transaction and a read finds the bus high (0xFF)  *)
(* A slave that is there and fails (a transient fault) does so from byte   *)
(* d.deaf of the transaction on.                                           *)
(***************************************************************************)
Ev(p, b, a) == [p |-> p, b |-> b, a |-> a]
EvStart == Ev("start", 0, 0)
EvRestart == Ev("restart", 0, 0)
EvStop == Ev("stop", 0, 0)
\* the k-th byte written in a transaction, with the slave's answer
EvWrite(b, k, nk) == Ev("write", b, IF nk = 0 \/ k < nk THEN 1 ELSE 0)
\* a byte read; a = 1 when the master acknowledges it
EvRead(b, a) == Ev("read", b, a)

\* the ways the slave may answer a transaction of n written bytes that the
\* master addresses to add, given the faults already spent
NkChoices(d, add, n, spent) ==
    IF add = 0 \/ add # d.addr THEN {1}
    ELSE {0} \cup (IF spent < MaxNacks
                   THEN {IF d.deaf < n THEN d.deaf ELSE n} ELSE {})
NackCost(d, add, nk) == IF add = d.addr /\ nk # 0 THEN 1 ELSE 0

(***************************************************************************)
(* bme280.c: register transport.  Each operator gives the bus events of    *)
(* the transaction (ev), the value returned (val) and the device after it  *)
(* (dev).  The value I2C_Write returns is never looked at.                 *)
(***************************************************************************)
\* the union read with the first byte as the high one
UnionWord_BigEndian(b0, b1) == b1 + 256 * b0

\* union { unsigned short b[2]; unsigned int w; } on the little-endian PIC18
UnionWord(b0, b1) == b0 + 256 * b1
\* union { unsigned short b[4]; unsigned long dw; }
UnionDword(b0, b1, b2, b3) == b0 + 256 * b1 + 65536 * b2 + 16777216 * b3

I2C_Write8(d, add, reg_addr, data, nk) ==
    [ev |-> << EvStart,
               EvWrite(add, 1, nk),
               EvWrite(reg_addr, 2, nk),
               EvWrite(data, 3, nk),
               EvStop >>,
     val |-> 0,
     dev |-> IF nk = 0 THEN DevWrite(d, reg_addr, data) ELSE d]

I2C_Read8(d, add, reg_addr, nk) ==
    LET ret == IF nk = 0 THEN DevReg(d, reg_addr) ELSE 255
    IN  [ev |-> << EvStart,
                   EvWrite(add, 1, nk),
                   EvWrite(reg_addr, 2, nk),
                   EvRestart,
                   EvWrite(BitOr(add, 1), 3, nk),
                   EvRead(ret, 0),
                   EvStop >>,
         val |-> ret,
         dev |-> d]

I2C_Read16(d, add, reg_addr, nk) ==
    LET b0 == IF nk = 0 THEN DevReg(d, reg_addr) ELSE 255
        b1 == IF nk = 0 THEN DevReg(d, reg_addr + 1) ELSE 255
    IN  [ev |-> << EvStart,
                   EvWrite(add, 1, nk),
                   EvWrite(reg_addr, 2, nk),
                   EvRestart,
                   EvWrite(BitOr(add, 1), 3, nk),
                   EvRead(b0, 1),
                   EvRead(b1, 0),
                   EvStop >>,
         val |-> UnionWord(b0, b1),
         dev |-> d]

(***************************************************************************)
(* bme280.c: BME280_TestConnection.  ack0, ack1: whether a slave           *)
(* acknowledges the address byte of the first and of the second probe      *)
(* (I2C1_Wr returns 0 on acknowledge).                                     *)
(***************************************************************************)
\* a probe that leaves the loop before the stop when it has found the sensor
ProbeEvents_BreakBeforeStop(address, ack) ==
    IF ack THEN << EvStart, Ev("write", address, 1) >>
    ELSE << EvStart, Ev("write", address, 0), EvStop >>

ProbeEvents(address, ack) ==
    << EvStart, Ev("write", address, IF ack THEN 1 ELSE 0), EvStop >>

\* the probes the other way round
ProbeOrder_HighFirst == << BME280_ADDR_HIGH, BME280_ADDR_LOW >>

\* the addresses BME280_TestConnection probes, i = 0 and i = 1
ProbeOrder == << BME280_ADDR_LOW, BME280_ADDR_HIGH >>

TestConnectionRun(ack0, ack1) ==
    LET found0 == IF ack0 THEN ProbeOrder[1] ELSE 0
        ev0 == ProbeEvents(ProbeOrder[1], ack0)
    IN  IF found0 # 0
        THEN [ev |-> ev0, val |-> found0]
        ELSE [ev |-> ev0 \o ProbeEvents(ProbeOrder[2], ack1),
              val |-> IF ack1 THEN ProbeOrder[2] ELSE 0]

(***************************************************************************)
(* bme280.c: BME280_Configure, the three register values                   *)
(***************************************************************************)
CtrlHumValue(p) == U8(p.H_sampling)
ConfigValue(p) ==
    U8(BitAnd(BitOr(p.standby * 32, p.filter * 4), 252))
\* a packing with the two oversampling fields of ctrl_meas exchanged
CtrlMeasValue_Swapped(p) ==
    U8(BitOr(BitOr(p.P_sampling * 32, p.T_sampling * 4), p.mode))
CtrlMeasValue(p) ==
    U8(BitOr(BitOr(p.T_sampling * 32, p.P_sampling * 4), p.mode))

\* a configuration that writes the control register before the config one
ConfigureWrites_ControlFirst(p) ==
    << <<BME280_REG_CTRLHUM, CtrlHumValue(p)>>,
       <<BME280_REG_CONTROL, CtrlMeasValue(p)>>,
       <<BME280_REG_CONFIG, ConfigValue(p)>> >>

\* the registers BME280_Configure writes, in the order it writes them
ConfigureWrites(p) ==
    << <<BME280_REG_CTRLHUM, CtrlHumValue(p)>>,
       <<BME280_REG_CONFIG, ConfigValue(p)>>,
       <<BME280_REG_CONTROL, CtrlMeasValue(p)>> >>

\* BME280_Configure: the three writes, the slave answering the i-th as nks[i]
ConfigureRun(d, add, p, nks) ==
    LET ws == ConfigureWrites(p)
        t1 == I2C_Write8(d, add, ws[1][1], ws[1][2], nks[1])
        t2 == I2C_Write8(t1.dev, add, ws[2][1], ws[2][2], nks[2])
        t3 == I2C_Write8(t2.dev, add, ws[3][1], ws[3][2], nks[3])
    IN  [ev |-> t1.ev \o t2.ev \o t3.ev, val |-> 0, dev |-> t3.dev]

(***************************************************************************)
(* bme280.c: BME280_begin, the calibration reads                           *)
(***************************************************************************)
\* the coefficients in the order BME280_begin reads them
CalibPlan ==
    << [f |-> "dig_T1", k |-> "u16", reg |-> BME280_REG_DIG_T1],
       [f |-> "dig_T2", k |-> "s16", reg |-> BME280_REG_DIG_T2],
       [f |-> "dig_T3", k |-> "s16", reg |-> BME280_REG_DIG_T3],
       [f |-> "dig_P1", k |-> "u16", reg |-> BME280_REG_DIG_P1],
       [f |-> "dig_P2", k |-> "s16", reg |-> BME280_REG_DIG_P2],
       [f |-> "dig_P3", k |-> "s16", reg |-> BME280_REG_DIG_P3],
       [f |-> "dig_P4", k |-> "s16", reg |-> BME280_REG_DIG_P4],
       [f |-> "dig_P5", k |-> "s16", reg |-> BME280_REG_DIG_P5],
       [f |-> "dig_P6", k |-> "s16", reg |-> BME280_REG_DIG_P6],
       [f |-> "dig_P7", k |-> "s16", reg |-> BME280_REG_DIG_P7],
       [f |-> "dig_P8", k |-> "s16", reg |-> BME280_REG_DIG_P8],
       [f |-> "dig_P9", k |-> "s16", reg |-> BME280_REG_DIG_P9],
       [f |-> "dig_H1", k |-> "u8", reg |-> BME280_REG_DIG_H1],
       [f |-> "dig_H2", k |-> "s16", reg |-> BME280_REG_DIG_H2],
       [f |-> "dig_H3", k |-> "u8", reg |-> BME280_REG_DIG_H3],
       [f |-> "dig_H4", k |-> "h4", reg |-> BME280_REG_DIG_H4],
       [f |-> "dig_H5", k |-> "h5", reg |-> BME280_REG_DIG_H5],
       [f |-> "dig_H6", k |-> "s8", reg |-> BME280_REG_DIG_H6] >>

\* a packing that leaves the 12-bit value unsigned
SignAdjust12_None(x) == x

\* if (x & 0x0800) x |= 0xF000;  on an int
SignAdjust12(x) ==
    IF BitAnd(U16(x), 2048) # 0 THEN S16(BitOr(U16(x), 61440)) ELSE x

\* a packing that takes the high nibble of the second byte
PackH4_HighNibble(hi, lo) ==
    SignAdjust12(S16(BitOr(Shl(hi, 4, 16), Shr(lo, 4))))

\* dig_H4 from the bytes read at 0xE4 (hi) and 0xE5 (lo)
PackH4(hi, lo) == SignAdjust12(S16(BitOr(Shl(hi, 4, 16), BitAnd(lo, 15))))
\* dig_H5 from the bytes read at 0xE6 (hi) and 0xE5 (lo)
PackH5(hi, lo) == SignAdjust12(S16(BitOr(Shl(hi, 4, 16), Shr(lo, 4))))

\* One coefficient of the plan read from the device.  A packed coefficient
\* takes two I2C_Read8 calls that are operands of one "|": C leaves their
\* order open, so first tells whether the left operand is read first.
\* nks[1] answers the left operand's (or the only) transaction.
CalibRead(d, add, e, nks, first) ==
    IF e.k = "u16" \/ e.k = "s16"
    THEN LET t == I2C_Read16(d, add, e.reg, nks[1])
         IN  [ev |-> t.ev, val |-> IF e.k = "u16" THEN t.val ELSE S16(t.val)]
    ELSE IF e.k = "u8" \/ e.k = "s8"
    THEN LET t == I2C_Read8(d, add, e.reg, nks[1])
         IN  [ev |-> t.ev, val |-> IF e.k = "u8" THEN t.val ELSE S8(t.val)]
    ELSE LET left == I2C_Read8(d, add,
                        IF e.k = "h4" THEN BME280_REG_DIG_H4
                                      ELSE BME280_REG_DIG_H5 + 1, nks[1])
             right == I2C_Read8(d, add,
                        IF e.k = "h4" THEN BME280_REG_DIG_H4 + 1
                                      ELSE BME280_REG_DIG_H5, nks[2])
         IN  [ev |-> IF first THEN left.ev \o right.ev ELSE right.ev \o left.ev,
              val |-> IF e.k = "h4" THEN PackH4(left.val, right.val)
                                    ELSE PackH5(left.val, right.val)]

\* number of bus transactions the plan entry e takes
CalibTxns(e) == IF e.k = "h4" \/ e.k = "h5" THEN 2 ELSE 1

\* a wait that tests the measuring bit instead of im_update
BeginPollBusy_Measuring(st) == BitAnd(st, 8) = 8

\* while ((I2C_Read8(BME280_REG_STATUS) & 0x01) == 0x01)
BeginPollBusy(st) == BitAnd(st, 1) = 1
\* a wait that tests im_update instead of the measuring bit
ForcedPollBusy_ImUpdate(st) == BitAnd(st, 1) # 0

\* while (I2C_Read8(BME280_REG_STATUS) & 0x08)
ForcedPollBusy(st) == BitAnd(st, 8) # 0
\* if ((ctrl_meas_reg & 0x03) != 0x00) return 0;
NotInSleep(ctrl) == BitAnd(ctrl, 3) # 0
\* a chip-ID test that also lets through the 0xFF of an unanswered read
ChipIdMismatch_BusHigh(id) == id # BME280_CHIP_ID /\ id # 255

\* a chip-ID test that lets the BMP280 (0x58) through instead
ChipIdMismatch_Bmp(id) == id # 88

\* no chip-ID test: BME280_begin goes on whatever it read
ChipIdMismatch_Never(id) == FALSE

\* if (I2C_Read8(BME280_REG_CHIPID) != BME280_CHIP_ID) return 0;
ChipIdMismatch(id) == id # BME280_CHIP_ID

(***************************************************************************)
(* bme280.c: BME280_Update.  data: the 8 bytes of registers 0xF7..0xFE.    *)
(***************************************************************************)
\* a burst read that acknowledges its last byte as well
BurstAck_All(i) == 1

\* I2C_Read(1) for the first 7 bytes, I2C_Read(0) for the 8th
BurstAck(i) == IF i < 8 THEN 1 ELSE 0

UpdateRun(d, add, data, nk) ==
    LET r == [i \in 1 .. 8 |-> IF nk = 0 THEN data[i] ELSE 255]
    IN  [ev |-> << EvStart,
                   EvWrite(add, 1, nk),
                   EvWrite(BME280_REG_PRESS_MSB, 2, nk),
                   EvRestart,
                   EvWrite(BitOr(add, 1), 3, nk) >>
                \o [i \in 1 .. 8 |-> EvRead(r[i], BurstAck(i))]
                \o << EvStop >>,
         adc_P |-> BitAnd(Shr(UnionDword(r[3], r[2], r[1], 0), 4), 1048575),
         adc_T |-> BitAnd(Shr(UnionDword(r[6], r[5], r[4], 0), 4), 1048575),
         adc_H |-> BitAnd(UnionDword(r[8], r[7], 0, 0), 65535)]

(***************************************************************************)
(* bme280.c: compensation (32-bit integer arithmetic on long)              *)
(***************************************************************************)
\* ReadTemperature after BME280_Update: every value the evaluation of
\* var1, var2, t_fine and *temp goes through, in the order of evaluation
TempTerms(adcT, c) ==
    LET t1x2 == Mul32(c.dig_T1, 2)
        a1 == Sub32(CDiv(adcT, 8), t1x2)
        p1 == Mul32(a1, c.dig_T2)
        var1 == CDiv(p1, 2048)
        d == Sub32(CDiv(adcT, 16), c.dig_T1)
        sq == Mul32(d, d)
        q == CDiv(sq, 4096)
        p3 == Mul32(q, c.dig_T3)
        var2 == CDiv(p3, 16384)
        tf == Add32(var1, var2)
        tf5 == Mul32(tf, 5)
        tf5p == Add32(tf5, 128)
    IN  [t1x2 |-> t1x2, a1 |-> a1, p1 |-> p1, var1 |-> var1, d |-> d,
         sq |-> sq, q |-> q, p3 |-> p3, var2 |-> var2, tf |-> tf,
         tf5 |-> tf5, tf5p |-> tf5p, temp |-> CDiv(tf5p, 256)]

\* ReadTemperature after BME280_Update: t_fine and *temp
TempCompensate(adcT, c) ==
    LET x == TempTerms(adcT, c)
    IN  [t_fine |-> x.tf, temp |-> x.temp]

\* ReadHumidity: v_x1_u32r before it is limited
HumRaw(adcH, tf, c) ==
    LET v0 == Sub32(tf, 76800)
        a == CDiv(Add32(Sub32(Sub32(Mul32(adcH, 16384),
                                    Mul32(c.dig_H4, 1048576)),
                              Mul32(c.dig_H5, v0)), 16384), 32768)
        b1 == CDiv(Mul32(v0, c.dig_H6), 1024)
        b2 == Add32(CDiv(Mul32(v0, c.dig_H3), 2048), 32768)
        b == CDiv(Add32(Mul32(Add32(CDiv(Mul32(b1, b2), 1024), 2097152),
                              c.dig_H2), 8192), 16384)
        v1 == Mul32(a, b)
        q == CDiv(v1, 32768)
    IN  Sub32(v1, CDiv(Mul32(CDiv(Mul32(q, q), 128), c.dig_H1), 16))

\* a ReadHumidity that does not limit
HumClamp_None(v) == v

\* v = (v < 0 ? 0 : v);  v = (v > 419430400 ? 419430400 : v);
HumClamp(v) ==
    LET v3 == IF v < 0 THEN 0 ELSE v
    IN  IF v3 > 419430400 THEN 419430400 ELSE v3

\* ReadHumidity: *humi
HumCompensate(adcH, tf, c) == CDiv(HumClamp(HumRaw(adcH, tf, c)), 4096)

\* ReadPressure: var1 as the test "if (var1 == 0)" finds it
PresVar1(tf, c) ==
    LET v1a == Sub32(CDiv(tf, 2), 64000)
        sq == Mul32(CDiv(v1a, 4), CDiv(v1a, 4))
        v1b == CDiv(Add32(CDiv(Mul32(c.dig_P3, CDiv(sq, 8192)), 8),
                          CDiv(Mul32(c.dig_P2, v1a), 2)), 262144)
    IN  CDiv(Mul32(Add32(32768, v1b), c.dig_P1), 32768)

\* a ReadPressure without the test
PresDivGuard_Never(var1) == FALSE

\* a test that lets the zero through
PresDivGuard_Negative(var1) == var1 < 0

\* if (var1 == 0) return 0;
PresDivGuard(var1) == var1 = 0

\* what a division by zero leaves in the quotient: not defined by C
DivZeroResults == {0, -1}

\* ReadPressure: the value returned (ok), the value stored in *pres and the
\* divisors of the divisions by var1 it performed (div); z is what a
\* division by zero would yield
PresCompensate(adcP, tf, c, old, z) ==
    LET v1a == Sub32(CDiv(tf, 2), 64000)
        sq == Mul32(CDiv(v1a, 4), CDiv(v1a, 4))
        v2a == Mul32(CDiv(sq, 2048), c.dig_P6)
        v2b == Add32(v2a, Mul32(Mul32(v1a, c.dig_P5), 2))
        v2c == Add32(CDiv(v2b, 4), Mul32(c.dig_P4, 65536))
        v1c == PresVar1(tf, c)
        p0 == Mul32(Sub32(Sub32(1048576, adcP), CDiv(v2c, 4096)), 3125)
        p1 == IF v1c = 0 THEN z
              ELSE IF p0 >= 0 THEN UDiv32(Mul32(p0, 2), v1c)
                              ELSE Mul32(UDiv32(p0, v1c), 2)
        p8 == UDiv32(p1, 8)
        v1d == CDiv(Mul32(c.dig_P9, UDiv32(Mul32(p8, p8), 8192)), 4096)
        v2d == CDiv(Mul32(UDiv32(p1, 4), c.dig_P8), 8192)
        p2 == Add32(p1, CDiv(Add32(Add32(v1d, v2d), c.dig_P7), 16))
    IN  IF PresDivGuard(v1c)
        THEN [ok |-> 0, pres |-> old, div |-> << >>]
        ELSE [ok |-> 1, pres |-> p2, div |-> << v1c >>]

(***************************************************************************)
(* State                                                                   *)
(***************************************************************************)
VARIABLES
    mpc,             \* where main.c stands ("harness": a free caller)
    pc,              \* where the driver stands inside BME280_begin or
                     \* BME280_ForcedMeasurement ("idle": not inside either)
    op,              \* the driver operation running or last run
    retval,          \* what the last returned driver operation returned
    calIdx,          \* BME280_begin: the entry of CalibPlan to read next
    args,            \* BME280_begin, BME280_Configure: the parameters passed
    ctrl_meas_reg,   \* BME280_ForcedMeasurement: its local
    ADD_BME280, BME280_calib, adc_T, adc_P, adc_H, t_fine,      \* bme280.c
    temperatura, umidade, pressao, estado_display,              \* main.c
    lcd,             \* what the display shows
    dev,             \* the sensor
    bus,             \* bus events of the operation op, oldest first
    nacks,           \* transactions the slave has failed to acknowledge
    polls,           \* busy polls of the current polling loop
    h                \* history: what the claims observe

vars ==
    << mpc, pc, op, retval, calIdx, args, ctrl_meas_reg,
       ADD_BME280, BME280_calib, adc_T, adc_P, adc_H, t_fine,
       temperatura, umidade, pressao, estado_display, lcd,
       dev, bus, nacks, polls, h >>

\* what belongs to the caller of the driver
callerVars == << mpc, estado_display, lcd >>
\* what only BME280_begin and BME280_ForcedMeasurement touch
beginVars == << calIdx, args, ctrl_meas_reg, polls >>
sampleVars == << adc_T, adc_P, adc_H, t_fine >>
outVars == << temperatura, umidade, pressao >>

CalibFields ==
    { "dig_T1", "dig_T2", "dig_T3", "dig_P1", "dig_P2", "dig_P3", "dig_P4",
      "dig_P5", "dig_P6", "dig_P7", "dig_P8", "dig_P9", "dig_H1", "dig_H2",
      "dig_H3", "dig_H4", "dig_H5", "dig_H6" }
\* a global of static storage duration starts as zero
ZeroCalib == [f \in CalibFields |-> 0]

\* the arguments main.c passes to BME280_begin
MainParams ==
    [mode |-> MODE_NORMAL, T_sampling |-> SAMPLING_X1,
     H_sampling |-> SAMPLING_X1, P_sampling |-> SAMPLING_X1,
     filter |-> FILTER_OFF, standby |-> STANDBY_0_5]

\* arguments the free caller passes
ParamSamples ==
    { MainParams,
      [mode |-> MODE_SLEEP, T_sampling |-> 5, H_sampling |-> 2,
       P_sampling |-> 3, filter |-> 4, standby |-> 7] }

\* the sensor after power-on
Devices ==
    { [addr |-> a, chip_id |-> id, status |-> 0, ctrl_hum |-> 0,
       ctrl_meas |-> 0, config |-> 0, cal |-> CalImages[i], deaf |-> k] :
        a \in DevAddrs, id \in ChipIds, i \in 1 .. Len(CalImages),
        k \in 1 .. 3 }

HistInit ==
    [calib0 |-> ZeroCalib,   \* BME280_calib when op was entered
     burstNo |-> 0,          \* burst reads since the cycle began
     adcBurst |-> 0,         \* the burst adc_P, adc_T, adc_H come from
     tfBurst |-> 0,          \* the burst t_fine was computed from
     usedH |-> << >>,        \* <<tfBurst, adcBurst>> ReadHumidity used
     usedP |-> << >>,        \* <<tfBurst, adcBurst>> ReadPressure used
     cycleOps |-> << >>,     \* the reads of this cycle, in order
     rt |-> << >>,           \* the last two ReadTemperature calls
     humRaw |-> 0,           \* v_x1_u32r of ReadHumidity before the limits
     pres0 |-> 0,            \* pressao when ReadPressure was entered
     presDiv |-> << >>]      \* what ReadPressure divided by (var1), if it did

\* the program's own state when it starts
InitState ==
    /\ pc = "idle" /\ op = "none" /\ retval = 0 /\ calIdx = 0
    /\ args = MainParams /\ ctrl_meas_reg = 0
    /\ adc_T = 0 /\ adc_P = 0 /\ adc_H = 0 /\ t_fine = 0
    /\ temperatura = 0 /\ umidade = 0 /\ pressao = 0 /\ estado_display = 0
    /\ lcd = [k |-> "blank", v |-> 0]
    /\ bus = << >> /\ polls = 0
    /\ h = HistInit

(***************************************************************************)
(* Driver operations (bme280.c).  Each leaves ADD_BME280 and what belongs  *)
(* to the caller alone; the caller's actions below say what the caller     *)
(* does around them.                                                       *)
(***************************************************************************)
\* BME280_TestConnection
D_TestConnection ==
    /\ pc = "idle"
    /\ \E nk0 \in NkChoices(dev, ProbeOrder[1], 1, nacks) :
       \E nk1 \in NkChoices(dev, ProbeOrder[2], 1,
                            nacks + NackCost(dev, ProbeOrder[1], nk0)) :
          LET r == TestConnectionRun(nk0 = 0, nk1 = 0)
              probes == Len(r.ev) \div 3
          IN  /\ probes = 1 => nk1 = 1
              /\ op' = "TestConnection"
              /\ retval' = r.val
              /\ bus' = r.ev
              /\ nacks' = nacks + NackCost(dev, ProbeOrder[1], nk0)
                          + (IF probes = 2
                             THEN NackCost(dev, ProbeOrder[2], nk1) ELSE 0)
    /\ h' = [h EXCEPT !.calib0 = BME280_calib]
    /\ UNCHANGED << pc, beginVars, ADD_BME280, BME280_calib, sampleVars,
                    outVars, dev >>

\* BME280_begin, up to the chip-ID check
D_BeginEnter(p) ==
    /\ pc = "idle"
    /\ \E nk \in NkChoices(dev, ADD_BME280, 3, nacks) :
          LET t == I2C_Read8(dev, ADD_BME280, BME280_REG_CHIPID, nk)
          IN  /\ bus' = t.ev
              /\ nacks' = nacks + NackCost(dev, ADD_BME280, nk)
              /\ IF ChipIdMismatch(t.val)
                 THEN pc' = "idle" /\ retval' = 0
                 ELSE pc' = "begin_reset" /\ retval' = retval
    /\ op' = "begin"
    /\ args' = p
    /\ calIdx' = 0 /\ polls' = 0
    /\ h' = [h EXCEPT !.calib0 = BME280_calib]
    /\ UNCHANGED << ctrl_meas_reg, ADD_BME280, BME280_calib, sampleVars,
                    outVars, dev >>

\* I2C_Write8(BME280_REG_SOFTRESET, 0xB6); delay_ms(100);
D_BeginReset ==
    /\ pc = "begin_reset"
    /\ \E nk \in NkChoices(dev, ADD_BME280, 3, nacks) :
          LET t == I2C_Write8(dev, ADD_BME280, BME280_REG_SOFTRESET,
                              SOFTRESET_CMD, nk)
          IN  /\ bus' = bus \o t.ev
              /\ dev' = t.dev
              /\ nacks' = nacks + NackCost(dev, ADD_BME280, nk)
    /\ pc' = "begin_poll"
    /\ UNCHANGED << op, retval, beginVars, ADD_BME280, BME280_calib,
                    sampleVars, outVars, h >>

\* one evaluation of the condition of the loop that waits for the
\* calibration data (and, when it holds, the delay_ms(100) of its body)
D_BeginPoll ==
    /\ pc = "begin_poll"
    /\ \E nk \in NkChoices(dev, ADD_BME280, 3, nacks) :
          LET t == I2C_Read8(dev, ADD_BME280, BME280_REG_STATUS, nk)
          IN  /\ bus' = bus \o t.ev
              /\ nacks' = nacks + NackCost(dev, ADD_BME280, nk)
              /\ IF BeginPollBusy(t.val)
                 THEN /\ polls < MaxPolls
                      /\ polls' = polls + 1
                      /\ UNCHANGED << pc, calIdx >>
                 ELSE /\ pc' = "begin_cal"
                      /\ calIdx' = 1
                      /\ polls' = 0
    /\ UNCHANGED << op, retval, args, ctrl_meas_reg, ADD_BME280,
                    BME280_calib, sampleVars, outVars, dev, h >>

\* one assignment to a member of BME280_calib
D_BeginCalib ==
    /\ pc = "begin_cal"
    /\ LET e == CalibPlan[calIdx]
           two == CalibTxns(e) = 2
       IN  \E nk1 \in NkChoices(dev, ADD_BME280, 3, nacks) :
           \E nk2 \in (IF two
                       THEN NkChoices(dev, ADD_BME280, 3,
                                nacks + NackCost(dev, ADD_BME280, nk1))
                       ELSE {0}) :
           \E first \in (IF two THEN BOOLEAN ELSE {TRUE}) :
              LET r == CalibRead(dev, ADD_BME280, e, << nk1, nk2 >>, first)
              IN  /\ bus' = bus \o r.ev
                  /\ BME280_calib' = [BME280_calib EXCEPT ![e.f] = r.val]
                  /\ nacks' = nacks + NackCost(dev, ADD_BME280, nk1)
                              + NackCost(dev, ADD_BME280, nk2)
    /\ IF calIdx < Len(CalibPlan)
       THEN calIdx' = calIdx + 1 /\ pc' = pc
       ELSE calIdx' = 0 /\ pc' = "begin_cfg"
    /\ UNCHANGED << op, retval, args, ctrl_meas_reg, polls, ADD_BME280,
                    sampleVars, outVars, dev, h >>

\* the slave's answers to the three writes of BME280_Configure
ConfigureNks ==
    { nks \in [1 .. 3 -> 0 .. 3] :
        /\ \A i \in 1 .. 3 :
              nks[i] \in NkChoices(dev, ADD_BME280, 3, 0)
        /\ ADD_BME280 = dev.addr =>
              nacks + Cardinality({i \in 1 .. 3 : nks[i] # 0}) <= MaxNacks }
ConfigureCost(nks) ==
    NackCost(dev, ADD_BME280, nks[1]) + NackCost(dev, ADD_BME280, nks[2])
    + NackCost(dev, ADD_BME280, nks[3])

\* BME280_Configure(...); return 1;
D_BeginConfigure ==
    /\ pc = "begin_cfg"
    /\ \E nks \in ConfigureNks :
          LET r == ConfigureRun(dev, ADD_BME280, args, nks)
          IN  /\ bus' = bus \o r.ev
              /\ dev' = r.dev
              /\ nacks' = nacks + ConfigureCost(nks)
    /\ pc' = "idle"
    /\ retval' = 1
    /\ UNCHANGED << op, beginVars, ADD_BME280, BME280_calib, sampleVars,
                    outVars, h >>

\* BME280_Configure called on its own
D_Configure(p) ==
    /\ pc = "idle"
    /\ \E nks \in ConfigureNks :
          LET r == ConfigureRun(dev, ADD_BME280, p, nks)
          IN  /\ bus' = r.ev
              /\ dev' = r.dev
              /\ nacks' = nacks + ConfigureCost(nks)
    /\ op' = "Configure"
    /\ args' = p
    /\ retval' = 0
    /\ h' = [h EXCEPT !.calib0 = BME280_calib]
    /\ UNCHANGED << pc, calIdx, ctrl_meas_reg, polls, ADD_BME280,
                    BME280_calib, sampleVars, outVars >>

\* BME280_ForcedMeasurement, up to the sleep-mode check
D_ForcedEnter ==
    /\ pc = "idle"
    /\ \E nk \in NkChoices(dev, ADD_BME280, 3, nacks) :
          LET t == I2C_Read8(dev, ADD_BME280, BME280_REG_CONTROL, nk)
          IN  /\ bus' = t.ev
              /\ nacks' = nacks + NackCost(dev, ADD_BME280, nk)
              /\ ctrl_meas_reg' = t.val
              /\ IF NotInSleep(t.val)
                 THEN pc' = "idle" /\ retval' = 0
                 ELSE pc' = "fm_write" /\ retval' = retval
    /\ op' = "ForcedMeasurement"
    /\ polls' = 0
    /\ h' = [h EXCEPT !.calib0 = BME280_calib]
    /\ UNCHANGED << calIdx, args, ADD_BME280, BME280_calib, sampleVars,
                    outVars, dev >>

\* a trigger that writes the forced mode alone, dropping the oversampling
ForcedTrigger_ModeOnly(ctrl) == MODE_FORCED

\* the value BME280_ForcedMeasurement writes back to the control register
ForcedTrigger(ctrl) == BitOr(ctrl, 1)

\* I2C_Write8(BME280_REG_CONTROL, ctrl_meas_reg | 1);
D_ForcedWrite ==
    /\ pc = "fm_write"
    /\ \E nk \in NkChoices(dev, ADD_BME280, 3, nacks) :
          LET t == I2C_Write8(dev, ADD_BME280, BME280_REG_CONTROL,
                              ForcedTrigger(ctrl_meas_reg), nk)
          IN  /\ bus' = bus \o t.ev
              /\ dev' = t.dev
              /\ nacks' = nacks + NackCost(dev, ADD_BME280, nk)
    /\ pc' = "fm_poll"
    /\ UNCHANGED << op, retval, beginVars, ADD_BME280, BME280_calib,
                    sampleVars, outVars, h >>

\* one evaluation of the condition of the loop that waits for the
\* conversion (and, when it holds, the delay_ms(1) of its body)
D_ForcedPoll ==
    /\ pc = "fm_poll"
    /\ \E nk \in NkChoices(dev, ADD_BME280, 3, nacks) :
          LET t == I2C_Read8(dev, ADD_BME280, BME280_REG_STATUS, nk)
          IN  /\ bus' = bus \o t.ev
              /\ nacks' = nacks + NackCost(dev, ADD_BME280, nk)
              /\ IF ForcedPollBusy(t.val)
                 THEN /\ polls < MaxPolls
                      /\ polls' = polls + 1
                      /\ UNCHANGED << pc, retval >>
                 ELSE /\ pc' = "idle"
                      /\ retval' = 1
                      /\ polls' = 0
    /\ UNCHANGED << op, calIdx, args, ctrl_meas_reg, ADD_BME280,
                    BME280_calib, sampleVars, outVars, dev, h >>

\* the three temperature bytes among the events of a burst read
BurstTempBytes(ev) == << ev[9].b, ev[10].b, ev[11].b >>

\* history of a burst read
BurstHist(hh) ==
    [hh EXCEPT !.calib0 = BME280_calib,
               !.burstNo = hh.burstNo + 1,
               !.adcBurst = hh.burstNo + 1]

\* BME280_Update called on its own
D_Update ==
    /\ pc = "idle"
    /\ \E data \in BurstSamples :
       \E nk \in NkChoices(dev, ADD_BME280, 3, nacks) :
          LET u == UpdateRun(dev, ADD_BME280, data, nk)
          IN  /\ bus' = u.ev
              /\ nacks' = nacks + NackCost(dev, ADD_BME280, nk)
              /\ adc_P' = u.adc_P /\ adc_T' = u.adc_T /\ adc_H' = u.adc_H
    /\ op' = "Update"
    /\ retval' = 0
    /\ h' = BurstHist(h)
    /\ UNCHANGED << pc, beginVars, ADD_BME280, BME280_calib, t_fine,
                    outVars, dev >>

\* a ReadTemperature that compensates the adc_T it finds on entry
ReadTemperatureInput_Entry(entryT, u) == entryT

\* ReadTemperature: the raw temperature it compensates, given adc_T as it
\* was on entry and the burst u that its call of BME280_Update read
ReadTemperatureInput(entryT, u) == u.adc_T

\* ReadTemperature(&temperatura)
D_ReadTemperature ==
    /\ pc = "idle"
    /\ \E data \in BurstSamples :
       \E nk \in NkChoices(dev, ADD_BME280, 3, nacks) :
          LET u == UpdateRun(dev, ADD_BME280, data, nk)
              r == TempCompensate(ReadTemperatureInput(adc_T, u),
                                  BME280_calib)
              call == [entry |-> adc_T, calib |-> BME280_calib,
                       raw |-> BurstTempBytes(u.ev),
                       t_fine |-> r.t_fine, temp |-> r.temp]
          IN  /\ bus' = u.ev
              /\ nacks' = nacks + NackCost(dev, ADD_BME280, nk)
              /\ adc_P' = u.adc_P /\ adc_T' = u.adc_T /\ adc_H' = u.adc_H
              /\ t_fine' = r.t_fine
              /\ temperatura' = r.temp
              /\ h' = [BurstHist(h) EXCEPT
                         !.tfBurst = h.burstNo + 1,
                         !.cycleOps = Append(h.cycleOps, "T"),
                         !.rt = IF h.rt = << >> THEN << call >>
                                ELSE << h.rt[Len(h.rt)], call >>]
    /\ op' = "ReadTemperature"
    /\ retval' = 1
    /\ UNCHANGED << pc, beginVars, ADD_BME280, BME280_calib, umidade,
                    pressao, dev >>

\* ReadHumidity(&umidade)
D_ReadHumidity ==
    /\ pc = "idle"
    /\ umidade' = HumCompensate(adc_H, t_fine, BME280_calib)
    /\ op' = "ReadHumidity"
    /\ retval' = 1
    /\ bus' = << >>
    /\ h' = [h EXCEPT !.calib0 = BME280_calib,
                      !.usedH = << h.tfBurst, h.adcBurst >>,
                      !.cycleOps = Append(h.cycleOps, "H"),
                      !.humRaw = HumRaw(adc_H, t_fine, BME280_calib)]
    /\ UNCHANGED << pc, beginVars, ADD_BME280, BME280_calib, sampleVars,
                    temperatura, pressao, dev, nacks >>

\* ReadPressure(&pressao)
D_ReadPressure ==
    /\ pc = "idle"
    /\ \E z \in DivZeroResults :
          LET r == PresCompensate(adc_P, t_fine, BME280_calib, pressao, z)
          IN  /\ pressao' = r.pres /\ retval' = r.ok
              /\ h' = [h EXCEPT !.calib0 = BME280_calib,
                                !.usedP = << h.tfBurst, h.adcBurst >>,
                                !.cycleOps = Append(h.cycleOps, "P"),
                                !.pres0 = pressao,
                                !.presDiv = r.div]
    /\ op' = "ReadPressure"
    /\ bus' = << >>
    /\ UNCHANGED << pc, beginVars, ADD_BME280, BME280_calib, sampleVars,
                    temperatura, umidade, dev, nacks >>

\* the steps inside BME280_begin
BeginStep ==
    /\ \/ D_BeginReset
       \/ D_BeginPoll
       \/ D_BeginCalib
       \/ D_BeginConfigure
    /\ UNCHANGED callerVars

\* the steps inside BME280_ForcedMeasurement
ForcedStep ==
    /\ \/ D_ForcedWrite
       \/ D_ForcedPoll
    /\ UNCHANGED callerVars

(***************************************************************************)
(* The sensor's own steps                                                  *)
(***************************************************************************)
\* Bit 0 of the status register (im_update) changes: the sensor begins or
\* ends a copy of its calibration data.  Followed only while BME280_begin
\* is in the loop that reads the bit.
DevImUpdate ==
    /\ pc = "begin_poll"
    /\ dev' = [dev EXCEPT !.status =
                 IF BitAnd(dev.status, 1) = 1 THEN dev.status - 1
                                              ELSE dev.status + 1]
    /\ UNCHANGED << callerVars, pc, op, retval, beginVars, ADD_BME280,
                    BME280_calib, sampleVars, outVars, bus, nacks, h >>

\* Bit 3 of the status register (measuring) changes: a conversion begins
\* or ends.  Followed only while BME280_ForcedMeasurement is in the loop
\* that reads the bit.
DevMeasuring ==
    /\ pc = "fm_poll"
    /\ dev' = [dev EXCEPT !.status =
                 IF BitAnd(dev.status, 8) = 8 THEN dev.status - 8
                                              ELSE dev.status + 8]
    /\ UNCHANGED << callerVars, pc, op, retval, beginVars, ADD_BME280,
                    BME280_calib, sampleVars, outVars, bus, nacks, h >>

(***************************************************************************)
(* main.c                                                                  *)
(***************************************************************************)
\* a ler_sensor that reads the humidity first
LerSensorOrder_HumidityFirst == << "H", "T", "P" >>

\* the order in which ler_sensor calls the three reads
LerSensorOrder == << "T", "H", "P" >>
LerPcs == << "ler1", "ler2", "ler3" >>
\* mpc stands before the call of ler_sensor that reads quantity q
AtLer(q) == \E i \in 1 .. 3 : mpc = LerPcs[i] /\ LerSensorOrder[i] = q
AfterLer == IF mpc = "ler3" THEN "display"
            ELSE IF mpc = "ler2" THEN "ler3" ELSE "ler2"

\* history at the top of a cycle of the main loop
CycleHist(hh) ==
    [hh EXCEPT !.burstNo = 0, !.adcBurst = 0, !.tfBurst = 0,
               !.usedH = << >>, !.usedP = << >>, !.cycleOps = << >>]

\* inicializar_sistema: BME280_TestConnection()
Main_TestConnection ==
    /\ mpc = "start"
    /\ D_TestConnection
    /\ mpc' = "store"
    /\ UNCHANGED << estado_display, lcd >>

\* a startup that goes on without a sensor
DiscoveryFailed_Never(a) == FALSE

\* if (ADD_BME280 == 0)
DiscoveryFailed(a) == a = 0

\* inicializar_sistema: ADD_BME280 = ...; if (ADD_BME280 == 0) ... else ...
Main_StoreAddr ==
    /\ mpc = "store"
    /\ ADD_BME280' = retval
    /\ IF DiscoveryFailed(retval)
       THEN lcd' = [k |-> "Erro I2C!", v |-> 0] /\ mpc' = "halt"
       ELSE lcd' = [k |-> "Add BME280", v |-> retval] /\ mpc' = "begin"
    /\ UNCHANGED << estado_display, pc, op, retval, beginVars,
                    BME280_calib, sampleVars, outVars, dev, bus, nacks, h >>

\* inicializar_sistema: the call of BME280_begin
Main_Begin ==
    /\ mpc = "begin"
    /\ D_BeginEnter(MainParams)
    /\ mpc' = "begin_ret"
    /\ UNCHANGED << estado_display, lcd >>

\* inicializar_sistema: if (!BME280_Begin(...)) { ...; while (1); }
Main_AfterBegin ==
    /\ mpc = "begin_ret"
    /\ pc = "idle"
    /\ IF retval = 0
       THEN lcd' = [k |-> "Erro BME280!", v |-> 0] /\ mpc' = "halt"
       ELSE lcd' = lcd /\ mpc' = "ler1"
    /\ h' = CycleHist(h)
    /\ UNCHANGED << estado_display, pc, op, retval, beginVars,
                    ADD_BME280, BME280_calib, sampleVars, outVars, dev, bus,
                    nacks >>

\* ler_sensor: ReadTemperature(&temperatura);
Main_ReadTemperature ==
    /\ AtLer("T")
    /\ D_ReadTemperature
    /\ mpc' = AfterLer
    /\ UNCHANGED << estado_display, lcd >>

\* ler_sensor: ReadHumidity(&umidade);
Main_ReadHumidity ==
    /\ AtLer("H")
    /\ D_ReadHumidity
    /\ mpc' = AfterLer
    /\ UNCHANGED << estado_display, lcd >>

\* ler_sensor: ReadPressure(&pressao);
Main_ReadPressure ==
    /\ AtLer("P")
    /\ D_ReadPressure
    /\ mpc' = AfterLer
    /\ UNCHANGED << estado_display, lcd >>

\* what atualizar_display shows in state e
Exibir(e) ==
    IF e = 0 THEN [k |-> "Temperatura:", v |-> temperatura]
    ELSE IF e = 1 THEN [k |-> "Umidade:", v |-> umidade]
    ELSE IF e = 2 THEN [k |-> "Pressao:", v |-> pressao]
    ELSE lcd

\* a display that alternates between the first two quantities
NextEstado_TwoStates(e) == (e + 1) % 2

\* estado_display = (estado_display + 1) % 3;
NextEstado(e) == (e + 1) % 3

\* atualizar_display(); delay_ms(2000);
Main_Display ==
    /\ mpc = "display"
    /\ lcd' = Exibir(estado_display)
    /\ estado_display' = NextEstado(estado_display)
    /\ mpc' = "ler1"
    /\ h' = CycleHist(h)
    /\ UNCHANGED << pc, op, retval, beginVars, ADD_BME280,
                    BME280_calib, sampleVars, outVars, dev, bus, nacks >>

\* the program on a bus without transient faults: a slave that is there
\* acknowledges (SpecDrv follows the driver through unacknowledged bytes)
Init ==
    /\ InitState
    /\ dev \in {d \in Devices : d.deaf = 1}
    /\ ADD_BME280 = 0
    /\ BME280_calib = ZeroCalib
    /\ mpc = "start"
    /\ nacks = MaxNacks

Next ==
    \/ Main_TestConnection
    \/ Main_StoreAddr
    \/ Main_Begin
    \/ Main_AfterBegin
    \/ Main_ReadTemperature
    \/ Main_ReadHumidity
    \/ Main_ReadPressure
    \/ Main_Display
    \/ BeginStep
    \/ DevImUpdate

Spec == Init /\ [][Next]_vars

(***************************************************************************)
(* One call of BME280_begin, BME280_Configure or BME280_ForcedMeasurement  *)
(* by a free caller, on a bus where the slave may fail to acknowledge,     *)
(* from the states an earlier discovery and initialisation can have left.  *)
(***************************************************************************)
\* BME280_calib as BME280_begin loads it from the sensor d
LoadedCalib(d) ==
    [f \in CalibFields |->
        LET e == CHOOSE x \in {CalibPlan[i] : i \in 1 .. Len(CalibPlan)} :
                    x.f = f
        IN  CalibRead(d, d.addr, e, << 0, 0 >>, TRUE).val]

\* the sensor d after BME280_Configure(p)
ConfiguredDev(d, p) == ConfigureRun(d, d.addr, p, << 0, 0, 0 >>).dev

Free == mpc = "harness" /\ pc = "idle" /\ op = "none"
Called == UNCHANGED callerVars

H_Begin == Free /\ (\E p \in ParamSamples : D_BeginEnter(p)) /\ Called
H_Configure == Free /\ (\E p \in ParamSamples : D_Configure(p)) /\ Called
H_ForcedMeasurement == Free /\ D_ForcedEnter /\ Called

\* the caller holds the address of the sensor, or none (0); the sensor is
\* as power-on left it, or as an earlier BME280_begin left it
CallerContexts ==
    /\ InitState
    /\ mpc = "harness"
    /\ \E d \in {x \in Devices : /\ x.addr = BME280_ADDR_LOW
                                  /\ x.cal = CalImages[2]} :
          \/ /\ dev = d
             /\ ADD_BME280 \in {0, d.addr}
             /\ BME280_calib = ZeroCalib
          \/ /\ d.chip_id = BME280_CHIP_ID
             /\ dev \in {ConfiguredDev(d, p) : p \in ParamSamples}
             /\ ADD_BME280 = d.addr
             /\ BME280_calib = LoadedCalib(d)

InitDrv == CallerContexts /\ nacks = 0

NextDrv ==
    \/ H_Begin
    \/ H_Configure
    \/ H_ForcedMeasurement
    \/ BeginStep
    \/ ForcedStep
    \/ DevImUpdate
    \/ DevMeasuring

SpecDrv == InitDrv /\ [][NextDrv]_vars

\* The same caller on a bus without faults, the processor never stopping:
\* a step of the driver that stays possible is taken.  Nothing is assumed
\* of the sensor.
InitPoll == CallerContexts /\ nacks = MaxNacks

SpecPoll ==
    /\ InitPoll /\ [][NextDrv]_vars
    /\ WF_vars(BeginStep) /\ WF_vars(ForcedStep)

(***************************************************************************)
(* Reading the bus log: the transactions (start .. stop) of the operation  *)
(* and what each one did.                                                  *)
(***************************************************************************)
TxnEnd(b, i) ==
    CHOOSE j \in i .. Len(b) :
        b[j].p = "stop" /\ \A k \in i .. (j - 1) : b[k].p # "stop"

\* a register transaction: the register addressed, whether it reads, the
\* byte written, the bytes read, and whether every written byte was
\* acknowledged
TxnInfo(t) ==
    LET rd == t[4].p = "restart"
    IN  [reg |-> t[3].b,
         rd |-> rd,
         wr |-> IF rd THEN 0 ELSE t[4].b,
         bytes |-> IF rd THEN SubSeq(t, 6, Len(t) - 1) ELSE << >>,
         acked |-> \A i \in 1 .. Len(t) : t[i].p = "write" => t[i].a = 1]

RECURSIVE TxnsFrom(_, _)
TxnsFrom(b, i) ==
    IF i > Len(b) THEN << >>
    ELSE LET j == TxnEnd(b, i)
         IN  << TxnInfo(SubSeq(b, i, j)) >> \o TxnsFrom(b, j + 1)

\* the register transactions on the bus since the operation was entered
Txns == TxnsFrom(bus, 1)

InBegin == op = "begin"
BeginReturned == op = "begin" /\ pc = "idle"
\* the byte that the chip-ID read of BME280_begin returned
ChipIdRead == bus[6].b

\* C1: when the chip-ID register (0xD0) read by BME280_begin is not 0x60,
\* BME280_begin has returned 0 with that read as the only transaction on
\* the bus (no write, nothing after it) and BME280_calib as it was on entry.
C1_MismatchFailsAtOnce ==
    (InBegin /\ ChipIdRead # 96) =>
        LET ts == Txns
        IN  /\ pc = "idle" /\ retval = 0
            /\ Len(ts) = 1
            /\ ts[1].reg = 208 /\ ts[1].rd
            /\ BME280_calib = h.calib0

\* a begin that fails on a chip-ID read the sensor did not acknowledge,
\* with the calibration of an earlier begin in place
C1_Witness ==
    /\ BeginReturned /\ retval = 0
    /\ ChipIdRead # 96
    /\ dev.chip_id = 96
    /\ BME280_calib # ZeroCalib

\* the calibration registers (0x88..0xA1, 0xE1..0xE7)
IsCalReg(reg) == (reg >= 136 /\ reg <= 161) \/ (reg >= 225 /\ reg <= 231)

\* BME280_begin went through its whole sequence: the reset write, at least
\* one status read, the 20 calibration read transactions and, last, the
\* three configuration writes
BeginRanThrough(ts) ==
    LET n == Len(ts)
    IN  /\ n >= 26
        /\ ts[2].reg = 224 /\ ~ts[2].rd /\ ts[2].wr = 182
        /\ Cardinality({i \in 1 .. n : ts[i].rd /\ IsCalReg(ts[i].reg)}) = 20
        /\ \A i \in (n - 2) .. n : ~ts[i].rd
        /\ << ts[n - 2].reg, ts[n - 1].reg, ts[n].reg >> = << 242, 245, 244 >>

\* C2: whenever BME280_begin has returned, it returned 1 if and only if its
\* chip-ID read returned 0x60, and then it ran through the whole sequence,
\* whatever bytes of the later transactions went unacknowledged.
C2_SuccessIffChipId ==
    BeginReturned =>
        /\ retval \in {0, 1}
        /\ (retval = 1) <=> (ChipIdRead = 96)
        /\ ChipIdRead = 96 => BeginRanThrough(Txns)

\* a begin that returned 1 although a transaction after the chip-ID read
\* was not acknowledged
C2_Witness ==
    /\ BeginReturned /\ retval = 1
    /\ LET ts == Txns IN \E i \in 2 .. Len(ts) : ~ts[i].acked

\* C3: BME280_TestConnection probes 0xEC first and 0xEE second, each probe
\* being start, one address byte written, stop; it returns the first
\* address acknowledged, leaves 0xEE unprobed when 0xEC acknowledged,
\* returns 0xEE when only 0xEE acknowledged and 0 when neither did.
C3_ProbeOrderAndResult ==
    op = "TestConnection" =>
        LET n == Len(bus)
            probe(i, address) ==
                /\ bus[i].p = "start"
                /\ bus[i + 1].p = "write" /\ bus[i + 1].b = address
                /\ bus[i + 2].p = "stop"
        IN  /\ n \in {3, 6}
            /\ probe(1, 236)
            /\ bus[2].a = 1 => n = 3 /\ retval = 236
            /\ bus[2].a = 0 =>
                  /\ n = 6
                  /\ probe(4, 238)
                  /\ bus[5].a = 1 => retval = 238
                  /\ bus[5].a = 0 => retval = 0

\* the sensor answers at 0xEE only: both addresses probed, 0xEE returned
C3_Witness ==
    /\ op = "TestConnection"
    /\ Len(bus) = 6 /\ bus[2].a = 0 /\ bus[5].a = 1
    /\ retval = 238

\* C4: in every cycle of the main loop the temperature is compensated
\* before the humidity and the pressure, the cycle performs exactly one
\* burst read, and ReadHumidity and ReadPressure use the t_fine computed
\* from the burst that gave the adc_H and adc_P they use.
C4_OneBurstPerCycle ==
    /\ h.cycleOps # << >> => h.cycleOps[1] = "T"
    /\ h.burstNo <= 1
    /\ h.usedH # << >> => h.usedH = << 1, 1 >>
    /\ h.usedP # << >> => h.usedP = << 1, 1 >>
    /\ mpc = "display" =>
          /\ h.cycleOps = << "T", "H", "P" >>
          /\ h.burstNo = 1
          /\ h.usedH = << 1, 1 >> /\ h.usedP = << 1, 1 >>

\* the end of the second cycle of the main loop
C4_Witness ==
    /\ mpc = "display" /\ estado_display = 1
    /\ h.cycleOps = << "T", "H", "P" >>
    /\ h.usedH = << 1, 1 >> /\ h.usedP = << 1, 1 >>

\* C5 as stated: two calls of ReadTemperature entered with the same adc_T
\* and the same calibration coefficients yield the same t_fine and the
\* same output, whatever the sensor's data registers hold.
C5_Original ==
    (/\ Len(h.rt) = 2
     /\ h.rt[1].entry = h.rt[2].entry
     /\ h.rt[1].calib = h.rt[2].calib)
        => /\ h.rt[1].t_fine = h.rt[2].t_fine
           /\ h.rt[1].temp = h.rt[2].temp

\* C5 (amended): ReadTemperature first reads the sensor's data registers;
\* two calls whose burst reads return the same three temperature bytes,
\* with the same calibration coefficients, yield the same t_fine and the
\* same output, whatever adc_T held when each call was entered.
C5_DeterminedByBurst ==
    (/\ Len(h.rt) = 2
     /\ h.rt[1].raw = h.rt[2].raw
     /\ h.rt[1].calib = h.rt[2].calib)
        => /\ h.rt[1].t_fine = h.rt[2].t_fine
           /\ h.rt[1].temp = h.rt[2].temp

\* two calls that read the same temperature bytes, entered with different
\* adc_T
C5_Witness ==
    /\ Len(h.rt) = 2
    /\ h.rt[1].raw = h.rt[2].raw
    /\ h.rt[1].calib = h.rt[2].calib
    /\ h.rt[1].entry # h.rt[2].entry
    /\ h.rt[2].t_fine = t_fine /\ h.rt[2].temp = temperatura

\* bit n of the byte x
Bit(x, n) == (x \div Pow2(n)) % 2

\* C6: BME280_ForcedMeasurement reads the control register 0xF4; if the low
\* 2 bits of the byte read are not both 0 it returns 0 with no write and no
\* poll; otherwise it writes that byte with bit 0 set and the other bits
\* kept to 0xF4, then only reads the status register 0xF3, and returns 1
\* only after one of those reads, made after the write, showed bit 3 clear.
C6_ForcedMeasurement ==
    op = "ForcedMeasurement" =>
        LET ts == Txns
            n == Len(ts)
            v == ts[1].bytes[1].b
        IN  /\ ts[1].rd /\ ts[1].reg = 244
            /\ v % 4 # 0 => pc = "idle" /\ retval = 0 /\ n = 1
            /\ v % 4 = 0 =>
                  /\ n >= 2 =>
                        /\ ~ts[2].rd /\ ts[2].reg = 244
                        /\ ts[2].wr % 2 = 1
                        /\ ts[2].wr \div 2 = v \div 2
                  /\ \A i \in 3 .. n : ts[i].rd /\ ts[i].reg = 243
                  /\ \A i \in 3 .. (n - 1) : Bit(ts[i].bytes[1].b, 3) = 1
                  /\ pc = "idle" =>
                        /\ retval = 1
                        /\ n >= 3
                        /\ Bit(ts[n].bytes[1].b, 3) = 0
                  /\ pc # "idle" => \A i \in 3 .. n : Bit(ts[i].bytes[1].b, 3) = 1

\* a forced measurement of a sensor asleep with oversampling configured,
\* that returned 1 after a poll that found the conversion running
C6_Witness ==
    /\ op = "ForcedMeasurement" /\ pc = "idle" /\ retval = 1
    /\ LET ts == Txns
       IN  /\ ts[1].bytes[1].b >= 4
           /\ Len(ts) >= 4
           /\ ts[3].acked /\ Bit(ts[3].bytes[1].b, 3) = 1

(***************************************************************************)
(* BME280_Configure called with every combination of its parameters, on a  *)
(* sensor that acknowledges.                                               *)
(***************************************************************************)
AllParams ==
    [mode : bme280_mode, T_sampling : bme280_sampling,
     H_sampling : bme280_sampling, P_sampling : bme280_sampling,
     filter : bme280_filter, standby : standby_time]

H_ConfigureAll == Free /\ (\E p \in AllParams : D_Configure(p)) /\ Called

InitCfg ==
    /\ InitState
    /\ mpc = "harness"
    /\ dev \in {d \in Devices : /\ d.addr = BME280_ADDR_LOW
                                /\ d.chip_id = BME280_CHIP_ID
                                /\ d.deaf = 1}
    /\ ADD_BME280 = dev.addr
    /\ BME280_calib = ZeroCalib
    /\ nacks = MaxNacks

NextCfg == H_ConfigureAll

SpecCfg == InitCfg /\ [][NextCfg]_vars

\* C7: for every mode in {0,1,3}, oversampling 0..5 for T, H and P, filter
\* 0..4 and standby 0..7, BME280_Configure writes H_sampling to 0xF2,
\* standby*32 + filter*4 (low 2 bits clear) to 0xF5 and
\* T_sampling*32 + P_sampling*4 + mode to 0xF4, each a byte, and the six
\* parameters are read back from the fields of the three bytes written.
C7_ConfigureRoundTrip ==
    op = "Configure" =>
        LET ts == Txns
            hum == ts[1].wr
            cfg == ts[2].wr
            meas == ts[3].wr
        IN  /\ Len(ts) = 3
            /\ \A i \in 1 .. 3 : ~ts[i].rd /\ ts[i].wr \in 0 .. 255
            /\ << ts[1].reg, ts[2].reg, ts[3].reg >> = << 242, 245, 244 >>
            /\ hum = args.H_sampling
            /\ cfg = args.standby * 32 + args.filter * 4
            /\ cfg % 4 = 0
            /\ meas = args.T_sampling * 32 + args.P_sampling * 4 + args.mode
            /\ [mode |-> meas % 4,
                T_sampling |-> meas \div 32,
                H_sampling |-> hum,
                P_sampling |-> (meas \div 4) % 8,
                filter |-> (cfg \div 4) % 8,
                standby |-> cfg \div 32] = args
            /\ << dev.ctrl_hum, dev.config, dev.ctrl_meas >>
                  = << hum, cfg, meas >>

\* the largest value of every parameter: 0x05, 0xF0 and 0xB7 are written
C7_Witness ==
    /\ op = "Configure"
    /\ args = [mode |-> 3, T_sampling |-> 5, H_sampling |-> 5,
               P_sampling |-> 5, filter |-> 4, standby |-> 7]
    /\ << bus[4].b, bus[9].b, bus[14].b >> = << 5, 240, 183 >>

\* the part of BME280_begin a transaction belongs to: 1 the chip-ID read,
\* 2 the reset write, 3 a status read, 4 a calibration read, 5 a
\* configuration write, 0 anything else
BeginPhase(t) ==
    IF t.rd /\ t.reg = 208 THEN 1
    ELSE IF ~t.rd /\ t.reg = 224 /\ t.wr = 182 THEN 2
    ELSE IF t.rd /\ t.reg = 243 THEN 3
    ELSE IF t.rd /\ IsCalReg(t.reg) THEN 4
    ELSE IF ~t.rd /\ t.reg \in {242, 244, 245} THEN 5
    ELSE 0

RECURSIVE PhasesFrom(_, _)
PhasesFrom(ts, i) ==
    IF i > Len(ts) THEN << >>
    ELSE << BeginPhase(ts[i]) >> \o PhasesFrom(ts, i + 1)

\* the first registers of the calibration reads T1..T3, P1..P9, H1..H3
CalRegsToH3 ==
    << 136, 138, 140, 142, 144, 146, 148, 150, 152, 154, 156, 158,
       161, 225, 227 >>

\* the registers rs are, coefficient by coefficient, a beginning of the
\* calibration reads T1..T3, P1..P9, H1, H2, H3, H4 (0xE4 and 0xE5), H5
\* (0xE6 and 0xE5), H6 (0xE7)
CalReadsInOrder(rs) ==
    /\ Len(rs) <= 20
    /\ Len(rs) \notin {16, 18}
    /\ \A j \in 1 .. Len(rs) :
          /\ j <= 15 => rs[j].reg = CalRegsToH3[j]
          /\ j = 17 => {rs[16].reg, rs[17].reg} = {228, 229}
          /\ j = 19 => {rs[18].reg, rs[19].reg} = {230, 229}
          /\ j = 20 => rs[20].reg = 231

\* C8: the bus operations of BME280_begin occur in the order chip-ID read,
\* reset write of 0xB6 to 0xE0, status reads, the calibration reads
\* T1,T2,T3,P1..P9,H1,H2,H3,H4,H5,H6, the configuration writes; the
\* calibration is read only after a status read made after the reset
\* returned bit 0 clear, and a configuration register is written only
\* after H6 has been read; a begin that returned 1 did all of them.
C8_BeginBusOrder ==
    (InBegin /\ ChipIdRead = 96) =>
        LET ts == Txns
            n == Len(ts)
            ph == PhasesFrom(ts, 1)
            polled == {i \in 1 .. n : ph[i] = 3}
            c3 == Cardinality({i \in 1 .. n : ph[i] <= 3})
            c4 == Cardinality({i \in 1 .. n : ph[i] = 4})
            c5 == Cardinality({i \in 1 .. n : ph[i] = 5})
            cal == SubSeq(ts, c3 + 1, c3 + c4)
            cfg == SubSeq(ts, n - c5 + 1, n)
        IN  /\ \A i \in 1 .. n : ph[i] # 0
            /\ \A i \in 1 .. (n - 1) : ph[i] <= ph[i + 1]
            /\ \A i \in 1 .. n : ph[i] = 1 <=> i = 1
            /\ \A i \in 1 .. n : ph[i] = 2 <=> i = 2
            /\ \A i \in polled :
                  Bit(ts[i].bytes[1].b, 0) = 0 <=>
                      (i + 1 <= n /\ ph[i + 1] # 3) \/ (i = n /\ pc = "begin_cal")
            /\ c4 > 0 => polled # {}
            /\ CalReadsInOrder(cal)
            /\ c5 > 0 =>
                  /\ c4 = 20
                  /\ c5 = 3
                  /\ << cfg[1].reg, cfg[2].reg, cfg[3].reg >> = << 242, 245, 244 >>
            /\ (pc = "idle" /\ retval = 1) => c5 = 3

\* a begin that returned 1 after a status read that found the copy of the
\* calibration data running
C8_Witness ==
    /\ BeginReturned /\ retval = 1
    /\ LET ts == Txns
       IN  /\ \A i \in 1 .. Len(ts) : ts[i].acked
           /\ Len(ts) = 27
           /\ Bit(ts[3].bytes[1].b, 0) = 1 /\ Bit(ts[4].bytes[1].b, 0) = 0
           /\ ts[20].reg = 229 /\ ts[21].reg = 228

(***************************************************************************)
(* BME280_begin on sensors whose registers 0xE4, 0xE5 and 0xE6 hold any    *)
(* combination of the sample bytes, on a bus without faults.               *)
(***************************************************************************)
ByteSamples ==
    {0, 1, 15, 16, 26, 43, 60, 127, 128, 129, 158, 200, 240, 255}

H_BeginMain == Free /\ D_BeginEnter(MainParams) /\ Called

InitH45 ==
    /\ InitState
    /\ mpc = "harness"
    /\ \E e4 \in ByteSamples, e5 \in ByteSamples, e6 \in ByteSamples :
          dev = [addr |-> BME280_ADDR_LOW, chip_id |-> BME280_CHIP_ID,
                 status |-> 0, ctrl_hum |-> 0, ctrl_meas |-> 0, config |-> 0,
                 cal |-> [CalImages[1] EXCEPT !.e4 = e4, !.e5 = e5, !.e6 = e6],
                 deaf |-> 1]
    /\ ADD_BME280 = dev.addr
    /\ BME280_calib = ZeroCalib
    /\ nacks = MaxNacks

NextH45 ==
    \/ H_BeginMain
    \/ BeginStep
    \/ DevImUpdate

SpecH45 == InitH45 /\ [][NextH45]_vars

\* the calibration read transactions among ts, in order
CalReads(ts) == SelectSeq(ts, LAMBDA t : t.rd /\ IsCalReg(t.reg))

\* the byte read from register reg by one of the transactions x and y
ByteOf(reg, x, y) == IF x.reg = reg THEN x.bytes[1].b ELSE y.bytes[1].b

\* a 12-bit pattern as a signed value
Signed12(x) == IF x >= 2048 THEN x - 4096 ELSE x

\* C10: for the bytes e4, e5, e6 read from 0xE4, 0xE5, 0xE6, BME280_begin
\* stores dig_H4 = e4*16 + (e5 mod 16) and dig_H5 = e6*16 + (e5 div 16),
\* each taken as a signed 12-bit value, so that both lie in -2048..2047.
C10_PackedH4H5 ==
    (InBegin /\ ChipIdRead = 96) =>
        LET r == CalReads(Txns)
        IN  /\ Len(r) >= 17 =>
                  LET e4 == ByteOf(228, r[16], r[17])
                      e5 == ByteOf(229, r[16], r[17])
                  IN  /\ BME280_calib.dig_H4 = Signed12(e4 * 16 + (e5 % 16))
                      /\ BME280_calib.dig_H4 \in -2048 .. 2047
                      /\ << e4, e5 >> = << dev.cal.e4, dev.cal.e5 >>
            /\ Len(r) >= 19 =>
                  LET e6 == ByteOf(230, r[18], r[19])
                      e5 == ByteOf(229, r[18], r[19])
                  IN  /\ BME280_calib.dig_H5 = Signed12(e6 * 16 + (e5 \div 16))
                      /\ BME280_calib.dig_H5 \in -2048 .. 2047
                      /\ << e6, e5 >> = << dev.cal.e6, dev.cal.e5 >>

\* 0xE4 = 0x80, 0xE5 = 0xF0, 0xE6 = 0x7F: the smallest dig_H4 and the
\* largest dig_H5
C10_Witness ==
    /\ BeginReturned /\ retval = 1
    /\ << dev.cal.e4, dev.cal.e5, dev.cal.e6 >> = << 128, 240, 127 >>
    /\ BME280_calib.dig_H4 = -2048
    /\ BME280_calib.dig_H5 = 2047

\* the sensor reports its calibration copied / its conversion done
ImUpdateClear == Bit(dev.status, 0) = 0
MeasuringClear == Bit(dev.status, 3) = 0
ForcedReturned == op = "ForcedMeasurement" /\ pc = "idle"

\* C9: the two waits have no timeout.  While status bit 0 is set,
\* BME280_begin stays in its wait, where it has neither read calibration
\* nor written configuration nor returned; if from some time on the bit
\* stays clear, a begin that is waiting returns.  While status bit 3 is set,
\* BME280_ForcedMeasurement stays in its wait after the trigger; if from
\* some time on the bit stays clear, it returns.
C9_WaitsWithoutTimeout ==
    /\ [][(pc = "begin_poll" /\ ~ImUpdateClear) => pc' = "begin_poll"]_vars
    /\ [][(pc = "fm_poll" /\ ~MeasuringClear) => pc' = "fm_poll"]_vars
    /\ [](pc = "begin_poll" =>
            /\ ~BeginReturned
            /\ \A i \in 1 .. Len(bus) :
                  bus[i].p = "write" =>
                      ~IsCalReg(bus[i].b) /\ bus[i].b \notin {242, 244, 245})
    /\ [](pc = "fm_poll" => ~ForcedReturned)
    /\ <>[]ImUpdateClear =>
          ((pc = "begin_poll") ~> (BeginReturned /\ retval = 1))
    /\ <>[]MeasuringClear =>
          ((pc = "fm_poll") ~> (ForcedReturned /\ retval = 1))

\* a begin that returned after as many busy status reads as are followed
C9_Witness ==
    /\ BeginReturned /\ retval = 1
    /\ Len(bus) = 7 + 5 + 7 * (MaxPolls + 1) + 8 * 13 + 7 * 7 + 5 * 3
    /\ \A k \in 1 .. MaxPolls : Bit(bus[7 + 5 + 7 * k - 1].b, 0) = 1

(***************************************************************************)
(* The example sensor: 0xE4 = 0x1A, 0xE5 = 0x2B, 0xE6 = 0x3C               *)
(***************************************************************************)
ExampleH45 == << dev.cal.e4, dev.cal.e5, dev.cal.e6 >> = << 26, 43, 60 >>
\* BME280_begin has passed the line that stores dig_H4
H4Stored == InBegin /\ ChipIdRead = 96 /\ Len(CalReads(Txns)) >= 17

\* C11 as stated: on the example sensor BME280_begin stores
\* dig_H4 = (0x1A << 4) | (0x3C & 0x0F) = 0x1AC.
C11_Original == (ExampleH45 /\ H4Stored) => BME280_calib.dig_H4 = 428

\* C11: on the example sensor BME280_begin reads 0xE4 and 0xE5 for dig_H4
\* and stores (0x1A << 4) | (0x2B & 0x0F) = 0x1AB, the low nibble coming
\* from 0xE5 and not from 0xE6; bit 11 is clear and the value is stored
\* without sign extension.
C11_H4Example ==
    (ExampleH45 /\ H4Stored) =>
        LET r == CalReads(Txns)
        IN  /\ {r[16].reg, r[17].reg} = {228, 229}
            /\ ByteOf(228, r[16], r[17]) = 26
            /\ ByteOf(229, r[16], r[17]) = 43
            /\ BME280_calib.dig_H4 = 427
            /\ BME280_calib.dig_H4 = 26 * 16 + 11

C11_Witness ==
    /\ ExampleH45 /\ BeginReturned /\ retval = 1
    /\ BME280_calib.dig_H4 = 427

(***************************************************************************)
(* One call of ReadPressure by a free caller, for the raw pressures,       *)
(* t_fine values and pressure coefficients of the samples.                 *)
(***************************************************************************)
TFineSamples == {0, 128422, 155292, -721299, 2147483647, -2147483647 - 1}
AdcPSamples == {0, 415148, 1048575}
PresCalibSamples ==
    { [ZeroCalib EXCEPT !.dig_P1 = p1, !.dig_P2 = p2, !.dig_P3 = p3,
                        !.dig_P4 = 2855, !.dig_P5 = 140, !.dig_P6 = -7,
                        !.dig_P7 = 15500, !.dig_P8 = -14600,
                        !.dig_P9 = 6000] :
        p1 \in {0, 1, 36477, 65535},
        p2 \in {0, 100, -10685, 32767},
        p3 \in {0, 3024} }

\* a sensor that plays no part: the call issues no bus operation
IdleDev == CHOOSE d \in Devices :
              /\ d.addr = BME280_ADDR_LOW /\ d.chip_id = BME280_CHIP_ID
              /\ d.cal = CalImages[1] /\ d.deaf = 1

H_ReadPressure == Free /\ D_ReadPressure /\ Called

InitPres ==
    /\ pc = "idle" /\ op = "none" /\ retval = 0 /\ calIdx = 0
    /\ args = MainParams /\ ctrl_meas_reg = 0
    /\ adc_T = 0 /\ adc_H = 0
    /\ temperatura = 0 /\ umidade = 0 /\ estado_display = 0
    /\ lcd = [k |-> "blank", v |-> 0]
    /\ bus = << >> /\ polls = 0 /\ h = HistInit
    /\ mpc = "harness" /\ dev = IdleDev /\ ADD_BME280 = dev.addr
    /\ nacks = MaxNacks
    /\ t_fine \in TFineSamples
    /\ adc_P \in AdcPSamples
    /\ BME280_calib \in PresCalibSamples
    /\ pressao \in {0, 96386}

NextPres == H_ReadPressure

SpecPres == InitPres /\ [][NextPres]_vars

\* C12: ReadPressure never divides by zero.  Whenever var1 is 0 at the
\* test it returns 0 without having divided by var1 and leaves *pres as it
\* was; this is what happens whenever dig_P1 = 0; and when it does divide,
\* the divisor is not 0.
C12_NoDivideByZero ==
    op = "ReadPressure" =>
        /\ h.presDiv # << 0 >>
        /\ PresVar1(t_fine, BME280_calib) = 0 =>
              /\ retval = 0 /\ h.presDiv = << >> /\ pressao = h.pres0
        /\ BME280_calib.dig_P1 = 0 => PresVar1(t_fine, BME280_calib) = 0

\* var1 = 0 with dig_P1 # 0 and the initial t_fine = 0
C12_Witness ==
    /\ op = "ReadPressure" /\ retval = 0
    /\ t_fine = 0 /\ BME280_calib.dig_P1 = 1 /\ BME280_calib.dig_P2 = 100
    /\ PresVar1(t_fine, BME280_calib) = 0
    /\ pressao = 96386 /\ h.presDiv = << >>

(***************************************************************************)
(* One call of ReadHumidity by a free caller, for the raw humidities,      *)
(* t_fine values and humidity coefficients of the samples.                 *)
(***************************************************************************)
AdcHSamples == {0, 28000, 65535}
HumCalibSamples ==
    { [ZeroCalib EXCEPT !.dig_H1 = h1, !.dig_H2 = h2, !.dig_H3 = h3,
                        !.dig_H4 = h4, !.dig_H5 = h5, !.dig_H6 = h6] :
        h1 \in {0, 75, 255},
        h2 \in {-32768, 362, 32767},
        h3 \in {0, 255},
        h4 \in {-2048, 315, 2047},
        h5 \in {-2048, 50, 2047},
        h6 \in {-128, 30, 127} }

H_ReadHumidity == Free /\ D_ReadHumidity /\ Called

InitHum ==
    /\ pc = "idle" /\ op = "none" /\ retval = 0 /\ calIdx = 0
    /\ args = MainParams /\ ctrl_meas_reg = 0
    /\ adc_T = 0 /\ adc_P = 0
    /\ temperatura = 0 /\ pressao = 0 /\ estado_display = 0
    /\ lcd = [k |-> "blank", v |-> 0]
    /\ bus = << >> /\ polls = 0 /\ h = HistInit
    /\ mpc = "harness" /\ dev = IdleDev /\ ADD_BME280 = dev.addr
    /\ nacks = MaxNacks
    /\ t_fine \in TFineSamples
    /\ adc_H \in AdcHSamples
    /\ BME280_calib \in HumCalibSamples
    /\ umidade \in {0, 47445}

NextHum == H_ReadHumidity

SpecHum == InitHum /\ [][NextHum]_vars

\* C13: ReadHumidity limits its intermediate to 0..419430400 before the
\* division by 4096, so the value it stores in umidade lies in 0..102400,
\* and it returns 1.
C13_HumidityRange ==
    op = "ReadHumidity" =>
        /\ retval = 1
        /\ umidade \in 0 .. 102400
        /\ h.humRaw < 0 => umidade = 0
        /\ h.humRaw > 419430400 => umidade = 102400
        /\ h.humRaw \in 0 .. 419430400 => umidade = h.humRaw \div 4096

\* the upper limit acts, on the initial t_fine
C13_Witness ==
    /\ op = "ReadHumidity" /\ retval = 1
    /\ t_fine = 0
    /\ h.humRaw > 419430400
    /\ umidade = 102400

(***************************************************************************)
(* One call of ReadTemperature by a free caller on a bus without faults,   *)
(* for the raw temperatures of BurstSamples and the temperature            *)
(* coefficients of the samples.                                            *)
(***************************************************************************)
TempCalibSamples ==
    { [ZeroCalib EXCEPT !.dig_T1 = t1, !.dig_T2 = t2, !.dig_T3 = t3] :
        t1 \in {0, 27504, 65535},
        t2 \in {-32768, 0, 26435, 32767},
        t3 \in {-32768, -1000, 32767} }

H_ReadTemperature == Free /\ D_ReadTemperature /\ Called

InitTemp ==
    /\ InitState
    /\ mpc = "harness" /\ dev = IdleDev /\ ADD_BME280 = dev.addr
    /\ nacks = MaxNacks
    /\ BME280_calib \in TempCalibSamples

NextTemp == H_ReadTemperature

SpecTemp == InitTemp /\ [][NextTemp]_vars

\* exact integers, no word size: the quotient of a by b truncated toward
\* zero, and the quotient of the product a * b by k truncated toward zero
\* (the product itself may exceed what TLC's integers hold)
Abs(a) == IF a < 0 THEN 0 - a ELSE a
TruncDiv(a, b) == IF a >= 0 THEN a \div b ELSE 0 - ((0 - a) \div b)
ExactMulDiv(a, b, k) ==
    LET x == Abs(a)
        y == Abs(b)
        q == (x \div k) * y + (((x % k) * y) \div k)
    IN  IF (a < 0) = (b < 0) THEN q ELSE 0 - q
\* the product a * b has a magnitude below 2^31
MulFits(a, b) == b = 0 \/ Abs(a) <= 2147483647 \div Abs(b)

\* t_fine by the formula of the specification, in exact integers
ExactTFine(adcT, c) ==
    LET d == TruncDiv(adcT, 16) - c.dig_T1
    IN  ExactMulDiv(TruncDiv(adcT, 8) - 2 * c.dig_T1, c.dig_T2, 2048)
        + ExactMulDiv(ExactMulDiv(d, d, 4096), c.dig_T3, 16384)
\* no product of that formula reaches 2^31 in magnitude
TempProductsFit(adcT, c) ==
    LET d == TruncDiv(adcT, 16) - c.dig_T1
    IN  /\ MulFits(TruncDiv(adcT, 8) - 2 * c.dig_T1, c.dig_T2)
        /\ MulFits(d, d)
        /\ MulFits(ExactMulDiv(d, d, 4096), c.dig_T3)

BoschExample ==
    /\ adc_T = 519888
    /\ BME280_calib.dig_T1 = 27504 /\ BME280_calib.dig_T2 = 26435
    /\ BME280_calib.dig_T3 = -1000

\* C14 as stated: for every 20-bit adc_T and every calibration, t_fine is
\* the value of the formula and the output is (t_fine*5 + 128)/256.
C14_Original ==
    op = "ReadTemperature" =>
        /\ t_fine = ExactTFine(adc_T, BME280_calib)
        /\ temperatura = TruncDiv(t_fine * 5 + 128, 256)

\* C14: for every 20-bit adc_T and every calibration for which no product
\* of the formula reaches 2^31 in magnitude, ReadTemperature sets t_fine to
\* ((adc_T/8 - 2*T1)*T2)/2048 + ((((adc_T/16 - T1)^2)/4096)*T3)/16384, every
\* division truncating toward zero; in every case it outputs
\* (t_fine*5 + 128)/256; for Bosch's example the output is 2508.
C14_TemperatureFormula ==
    op = "ReadTemperature" =>
        /\ adc_T \in 0 .. 1048575
        /\ TempProductsFit(adc_T, BME280_calib) =>
              t_fine = ExactTFine(adc_T, BME280_calib)
        /\ temperatura = TruncDiv(t_fine * 5 + 128, 256)
        /\ BoschExample => temperatura = 2508

C14_Witness ==
    /\ op = "ReadTemperature" /\ BoschExample
    /\ TempProductsFit(adc_T, BME280_calib)
    /\ t_fine = 128423 /\ temperatura = 2508

(***************************************************************************)
(* One call of BME280_Update by a free caller, on a bus where the slave    *)
(* may fail to acknowledge.                                                *)
(***************************************************************************)
H_Update == Free /\ D_Update /\ Called

InitUpd ==
    /\ pc = "idle" /\ op = "none" /\ retval = 0 /\ calIdx = 0
    /\ args = MainParams /\ ctrl_meas_reg = 0
    /\ temperatura = 0 /\ umidade = 0 /\ pressao = 0 /\ estado_display = 0
    /\ lcd = [k |-> "blank", v |-> 0]
    /\ bus = << >> /\ polls = 0 /\ h = HistInit
    /\ mpc = "harness"
    /\ dev \in {d \in Devices : /\ d.addr = BME280_ADDR_LOW
                                /\ d.chip_id = BME280_CHIP_ID
                                /\ d.cal = CalImages[1]}
    /\ ADD_BME280 \in {0, dev.addr}
    /\ BME280_calib = ZeroCalib
    /\ nacks = 0
    /\ adc_P \in {0, 415148} /\ adc_T \in {0, 519888} /\ adc_H \in {0, 28000}
    /\ t_fine \in TFineSamples

NextUpd == H_Update

SpecUpd == InitUpd /\ [][NextUpd]_vars

\* the events p of the bus log
CountEv(p) == Cardinality({i \in 1 .. Len(bus) : bus[i].p = p})

\* C15: BME280_Update performs one transaction: start, the address, register
\* 0xF7, restart, the address with the read bit, 8 bytes read of which the
\* first 7 are acknowledged and the last is not, stop.  Afterwards
\* adc_P = (b0*65536 + b1*256 + b2) / 16, adc_T = (b3*65536 + b4*256 + b5) / 16
\* and adc_H = b6*256 + b7, so adc_P and adc_T lie in 0..1048575 and adc_H in
\* 0..65535.
C15_UpdateBurst ==
    op = "Update" =>
        /\ Len(bus) = 14
        /\ CountEv("start") = 1 /\ CountEv("stop") = 1
        /\ CountEv("restart") = 1 /\ CountEv("read") = 8
        /\ bus[1] = EvStart /\ bus[4] = EvRestart /\ bus[14] = EvStop
        /\ bus[2].p = "write" /\ bus[2].b = ADD_BME280
        /\ bus[3].p = "write" /\ bus[3].b = 247
        /\ bus[5].p = "write"
        /\ bus[5].b = ADD_BME280 + (IF ADD_BME280 % 2 = 0 THEN 1 ELSE 0)
        /\ \A i \in 6 .. 13 :
              /\ bus[i].p = "read" /\ bus[i].b \in 0 .. 255
              /\ bus[i].a = 1 <=> i < 13
        /\ adc_P = (bus[6].b * 65536 + bus[7].b * 256 + bus[8].b) \div 16
        /\ adc_T = (bus[9].b * 65536 + bus[10].b * 256 + bus[11].b) \div 16
        /\ adc_H = bus[12].b * 256 + bus[13].b
        /\ adc_P \in 0 .. 1048575 /\ adc_T \in 0 .. 1048575
        /\ adc_H \in 0 .. 65535

\* the burst 65 5A C0 7E ED 00 6E 30 read over raw values of an earlier one
C15_Witness ==
    /\ op = "Update"
    /\ << bus[6].b, bus[7].b, bus[8].b >> = << 101, 90, 192 >>
    /\ adc_P = 415148 /\ adc_T = 519888 /\ adc_H = 28208
    /\ \A i \in 2 .. 5 : i # 4 => bus[i].a = 1

(***************************************************************************)
(* The primitives of each register transaction on the bus                  *)
(***************************************************************************)
\* the bus log b from event i on, cut after each stop
RECURSIVE SegsFrom(_, _)
SegsFrom(b, i) ==
    IF i > Len(b) THEN << >>
    ELSE LET j == TxnEnd(b, i)
         IN  << SubSeq(b, i, j) >> \o SegsFrom(b, j + 1)

\* the primitives of t, in order
Prims(t) == [i \in 1 .. Len(t) |-> t[i].p]
\* the address with the read bit set (the address is even or 0)
ReadAddr(add) == IF add % 2 = 0 THEN add + 1 ELSE add

IsWrite8(t) ==
    /\ Prims(t) = << "start", "write", "write", "write", "stop" >>
    /\ t[2].b = ADD_BME280
IsRead8(t) ==
    /\ Prims(t) = << "start", "write", "write", "restart", "write",
                     "read", "stop" >>
    /\ t[2].b = ADD_BME280 /\ t[5].b = ReadAddr(ADD_BME280)
    /\ t[6].a = 0
IsRead16(t) ==
    /\ Prims(t) = << "start", "write", "write", "restart", "write",
                     "read", "read", "stop" >>
    /\ t[2].b = ADD_BME280 /\ t[5].b = ReadAddr(ADD_BME280)
    /\ t[6].a = 1 /\ t[7].a = 0

\* reg is where a 16-bit coefficient starts
IsWordReg(reg) ==
    \E i \in 1 .. Len(CalibPlan) :
        CalibPlan[i].reg = reg /\ CalibPlan[i].k \in {"u16", "s16"}

\* the value of a 16-bit pattern as the coefficient of kind k holds it
AsKind(k, w) == IF k = "s16" /\ w >= 32768 THEN w - 65536 ELSE w

\* C16: the register transport issues exactly these sequences.
\* I2C_Write8: start, write(address), write(register), write(data), stop;
\* I2C_Read8: start, write(address), write(register), restart,
\* write(address|1), read with no-ack, stop; I2C_Read16: the same with two
\* reads, the first acknowledged and the second not, and it returns
\* second byte * 256 + first byte.  Seen on the operations that are made of
\* register transactions only: every transaction of BME280_begin,
\* BME280_Configure and BME280_ForcedMeasurement has the shape of its kind,
\* and each 16-bit coefficient BME280_begin has stored is the little-endian
\* word of the two bytes its transaction read.
C16_TransportSequences ==
    op \in {"begin", "Configure", "ForcedMeasurement"} =>
        LET segs == SegsFrom(bus, 1)
            rd16 == SelectSeq(segs, LAMBDA t : Len(t) = 8)
        IN  /\ \A i \in 1 .. Len(segs) :
                  LET t == segs[i]
                      reg == t[3].b
                  IN  IF t[4].p # "restart" THEN IsWrite8(t)
                      ELSE IF IsWordReg(reg) THEN IsRead16(t)
                           ELSE IsRead8(t)
            /\ op = "begin" =>
                  \A j \in 1 .. Len(rd16) :
                     LET e == CalibPlan[IF j <= 12 THEN j ELSE 14]
                     IN  /\ rd16[j][3].b = e.reg
                         /\ BME280_calib[e.f]
                              = AsKind(e.k, rd16[j][7].b * 256 + rd16[j][6].b)

\* BME280_begin has run through on a sensor that acknowledges: 2 writes of
\* one register, reads of one byte, 13 reads of two; dig_T2 = 0x994C comes
\* from the bytes 4C 99
C16_Witness ==
    /\ BeginReturned /\ retval = 1
    /\ LET segs == SegsFrom(bus, 1)
           rd16 == SelectSeq(segs, LAMBDA t : Len(t) = 8)
       IN  /\ Len(rd16) = 13
           /\ Len(SelectSeq(segs, LAMBDA t : Len(t) = 5)) = 4
           /\ \A i \in 1 .. Len(segs) : \A k \in 1 .. Len(segs[i]) :
                 segs[i][k].p = "write" => segs[i][k].a = 1
           /\ rd16[2][6].b = 76 /\ rd16[2][7].b = 153
    /\ BME280_calib.dig_T2 = -26292

(***************************************************************************)
(* The running program and the failures the driver reports                 *)
(***************************************************************************)
\* the last ReadPressure of the program returned 0
PressureFailed == op = "ReadPressure" /\ retval = 0

\* C17: every failure a driver operation reports in the running program is
\* handled by halting with a fault on the display: after a discovery that
\* returned 0 or a BME280_begin that returned 0 the program halts showing
\* the error, and after a ReadPressure that returned 0 the display does not
\* show a pressure as if it were valid.
C17_FailuresHandled ==
    /\ (mpc \in {"begin", "begin_ret", "ler1", "ler2", "ler3", "display"})
          => ADD_BME280 # 0
    /\ (mpc \in {"ler1", "ler2", "ler3", "display"}) =>
          lcd.k \notin {"Erro I2C!", "Erro BME280!"}
    /\ mpc = "halt" => lcd.k \in {"Erro I2C!", "Erro BME280!"}
    /\ (mpc = "ler1" /\ PressureFailed) => lcd.k # "Pressao:"

(***************************************************************************)
(* The running program whose processor never stops: a step of the main     *)
(* loop that is possible is taken.                                         *)
(***************************************************************************)
\* the main loop is running: startup succeeded
InMainLoop == mpc \in {"ler1", "ler2", "ler3", "display"}
\* the main loop moves on to its next statement; in the loop each statement
\* is a call that returns (no read waits for the sensor)
MainLoopStep ==
    InMainLoop /\ mpc' = (IF mpc = "display" THEN "ler1" ELSE AfterLer)

SpecRun == Init /\ [][Next]_vars /\ WF_mpc(MainLoopStep)

\* what the display shows after what it showed
ShownAfter(k) ==
    IF k = "Temperatura:" THEN "Umidade:"
    ELSE IF k = "Umidade:" THEN "Pressao:"
    ELSE "Temperatura:"

\* C18: after successful startup the display goes through temperature,
\* humidity, pressure, temperature, ... in that order; it changes only at
\* the end of a cycle that has read the sensor anew (temperature, humidity,
\* pressure, once each), and then shows one quantity; estado_display is
\* always 0, 1 or 2; each quantity is shown again and again.
C18_DisplayRotation ==
    /\ [](estado_display \in {0, 1, 2})
    /\ [][(InMainLoop /\ lcd' # lcd) =>
             /\ mpc = "display" /\ mpc' = "ler1"
             /\ h.cycleOps = << "T", "H", "P" >>
             /\ lcd'.k = ShownAfter(lcd.k)]_vars
    /\ [][(mpc = "display" /\ mpc' # mpc) =>
             /\ lcd'.k = ShownAfter(lcd.k)
             /\ lcd'.v = (IF lcd'.k = "Temperatura:" THEN temperatura
                          ELSE IF lcd'.k = "Umidade:" THEN umidade
                          ELSE pressao)]_vars
    /\ (mpc = "ler1") ~> (lcd.k = "Temperatura:")
    /\ (lcd.k = "Temperatura:") ~> (lcd.k = "Umidade:")
    /\ (lcd.k = "Umidade:") ~> (lcd.k = "Pressao:")
    /\ (lcd.k = "Pressao:") ~> (lcd.k = "Temperatura:")

\* the fourth cycle: the pressure is on the display, the temperature is next
C18_Witness ==
    /\ mpc = "display" /\ lcd.k = "Pressao:" /\ estado_display = 0
    /\ h.cycleOps = << "T", "H", "P" >>

(***************************************************************************)
(* The order of startup in the running program                             *)
(***************************************************************************)
ReadOps == {"ReadTemperature", "ReadHumidity", "ReadPressure"}
\* every transaction of the bus log addresses a
AllAddressed(a) ==
    \A i \in 1 .. Len(bus) :
        /\ bus[i].p = "start" => bus[i + 1].p = "write" /\ bus[i + 1].b = a
        /\ bus[i].p = "restart" =>
              bus[i + 1].p = "write" /\ bus[i + 1].b = ReadAddr(a)

\* C19: in the running program nothing is sent to a register before
\* BME280_TestConnection has returned an address that is not 0 and that was
\* stored in ADD_BME280; every later transaction uses that address; no
\* compensation runs before BME280_begin has returned 1; and when discovery
\* returns 0 or BME280_begin returns 0 the program halts and the bus stays
\* silent.
C19_DiscoveryFirst ==
    /\ [](mpc = "start" => op = "none" /\ bus = << >>)
    /\ [](op \notin {"none", "TestConnection"} =>
             /\ ADD_BME280 \in {BME280_ADDR_LOW, BME280_ADDR_HIGH}
             /\ ADD_BME280 = dev.addr
             /\ AllAddressed(ADD_BME280))
    /\ [][ADD_BME280' # ADD_BME280 =>
             /\ op = "TestConnection" /\ mpc = "store"
             /\ ADD_BME280' = retval]_vars
    /\ [][(op' \in ReadOps /\ op \notin ReadOps) =>
             op = "begin" /\ pc = "idle" /\ retval = 1]_vars
    /\ []((op = "TestConnection" /\ retval = 0 /\ mpc # "store")
             => mpc = "halt")
    /\ []((op = "begin" /\ pc = "idle" /\ retval = 0 /\ mpc # "begin_ret")
             => mpc = "halt")
    /\ [][mpc = "halt" => bus' = bus /\ op' = op /\ mpc' = mpc]_vars

\* a sensor found by the second probe, initialised, its temperature read
C19_Witness ==
    /\ op = "ReadTemperature" /\ mpc = "ler2"
    /\ ADD_BME280 = BME280_ADDR_HIGH
    /\ Len(bus) = 14 /\ AllAddressed(BME280_ADDR_HIGH)

(***************************************************************************)
(* A free caller that calls driver operations one after the other, in any  *)
(* order, holding the address of the sensor or none (0: nothing on the bus *)
(* acknowledges); the sensor is a BME280 or, when addressed, a chip that   *)
(* answers with the ID 0x58; BME280_calib is as the program start left it  *)
(* or as an earlier BME280_begin loaded it.  mpc counts the calls made.    *)
(***************************************************************************)
SeqPc(n) == "call" \o ToString(n)
CallsMade == CHOOSE n \in 0 .. MaxCalls : mpc = SeqPc(n)
SeqFree == pc = "idle" /\ mpc \in {SeqPc(n) : n \in 0 .. MaxCalls - 1}
SeqCalled ==
    /\ mpc' = SeqPc(CallsMade + 1)
    /\ UNCHANGED << estado_display, lcd >>

S_TestConnection == SeqFree /\ D_TestConnection /\ SeqCalled
S_Begin == SeqFree /\ D_BeginEnter(MainParams) /\ SeqCalled
S_Configure == SeqFree /\ (\E p \in ParamSamples : D_Configure(p)) /\ SeqCalled
S_ForcedMeasurement == SeqFree /\ D_ForcedEnter /\ SeqCalled
S_Update == SeqFree /\ D_Update /\ SeqCalled
S_ReadTemperature == SeqFree /\ D_ReadTemperature /\ SeqCalled
S_ReadHumidity == SeqFree /\ D_ReadHumidity /\ SeqCalled
S_ReadPressure == SeqFree /\ D_ReadPressure /\ SeqCalled

InitSeq ==
    /\ InitState
    /\ mpc = SeqPc(0)
    /\ dev \in {d \in Devices : /\ d.addr = BME280_ADDR_LOW
                                /\ d.chip_id \in {BME280_CHIP_ID, 88}
                                /\ d.cal = CalImages[1]
                                /\ d.deaf = 2}
    /\ ADD_BME280 \in {0, dev.addr}
    /\ dev.chip_id = BME280_CHIP_ID \/ ADD_BME280 = dev.addr
    /\ BME280_calib \in {ZeroCalib, LoadedCalib(dev)}
    /\ BME280_calib = ZeroCalib
          \/ (dev.chip_id = BME280_CHIP_ID /\ ADD_BME280 = dev.addr)
    /\ nacks = MaxNacks

NextSeq ==
    \/ S_TestConnection
    \/ S_Begin
    \/ S_Configure
    \/ S_ForcedMeasurement
    \/ S_Update
    \/ S_ReadTemperature
    \/ S_ReadHumidity
    \/ S_ReadPressure
    \/ BeginStep
    \/ ForcedStep
    \/ DevImUpdate
    \/ DevMeasuring

SpecSeq == InitSeq /\ [][NextSeq]_vars

\* C20: whatever operations are called in whatever order, the bus log of
\* each is made of whole transactions: it is empty or begins with a start
\* and ends with a stop (the bus is idle when the operation returns), every
\* start but the first comes right after a stop and every stop but the last
\* right before a start, so that restart, write and read occur inside an
\* open transaction only; a byte read without acknowledge is followed at
\* once by the stop, and a byte read with acknowledge by another read.
C20_BusWellFormed ==
    LET n == Len(bus)
    IN  /\ n > 0 => bus[1].p = "start" /\ bus[n].p = "stop"
        /\ \A i \in 1 .. n :
              /\ (bus[i].p = "start" /\ i > 1) => bus[i - 1].p = "stop"
              /\ (bus[i].p = "stop" /\ i < n) => bus[i + 1].p = "start"
              /\ (bus[i].p = "read" /\ bus[i].a = 0) => bus[i + 1].p = "stop"
              /\ (bus[i].p = "read" /\ bus[i].a = 1) => bus[i + 1].p = "read"
              /\ (bus[i].p = "stop" /\ bus[i - 1].p = "read")
                    => bus[i - 1].a = 0
              /\ bus[i].p = "restart" => bus[i + 1].p = "write"
        /\ op \in {"ReadHumidity", "ReadPressure", "none"} => n = 0

\* a burst read called after a BME280_begin that went through
C20_Witness ==
    /\ mpc = SeqPc(2) /\ op = "Update"
    /\ BME280_calib = LoadedCalib(dev)
    /\ Len(bus) = 14 /\ bus[13].a = 0 /\ bus[12].a = 1

(***************************************************************************)
(* The writes of a configuration                                           *)
(***************************************************************************)
\* the transactions segs[i .. i+2] are writes of 0xF2, 0xF5 and 0xF4
IsConfigureAt(segs, i) ==
    /\ \A k \in 0 .. 2 : Len(segs[i + k]) = 5 /\ segs[i + k][4].p = "write"
    /\ << segs[i][3].b, segs[i + 1][3].b, segs[i + 2][3].b >>
          = << 242, 245, 244 >>

\* C21: BME280_Configure issues exactly three register writes, to the
\* humidity-control register 0xF2, then to the config register 0xF5, then
\* to the control register 0xF4; a BME280_begin that returns 1 ends with
\* these three.  So the write of the control register is the last
\* transaction of the configuration and of BME280_begin.
C21_ConfigureWriteOrder ==
    /\ op = "Configure" =>
          LET segs == SegsFrom(bus, 1)
          IN  Len(segs) = 3 /\ IsConfigureAt(segs, 1)
    /\ (BeginReturned /\ retval = 1) =>
          LET segs == SegsFrom(bus, 1)
              n == Len(segs)
          IN  /\ n >= 3 /\ IsConfigureAt(segs, n - 2)
              /\ segs[n][3].b = BME280_REG_CONTROL
              /\ \A i \in 1 .. n - 3 :
                    segs[i][4].p = "write" =>
                        segs[i][3].b = BME280_REG_SOFTRESET
    /\ (InBegin /\ ~BeginReturned) =>
          \A i \in 1 .. Len(bus) :
             (bus[i].p = "start" /\ bus[i + 3].p = "write")
                => bus[i + 2].b = BME280_REG_SOFTRESET

\* BME280_begin called for sleep mode with x16, x4 and x8 oversampling has
\* returned 1: the last transaction writes 0xAC to 0xF4
C21_Witness ==
    /\ BeginReturned /\ retval = 1
    /\ args.mode = MODE_SLEEP
    /\ LET segs == SegsFrom(bus, 1)
       IN  /\ segs[Len(segs)][3].b = 244 /\ segs[Len(segs)][4].b = 172
           /\ segs[Len(segs) - 1][3].b = 245
           /\ \A k \in 2 .. 4 : segs[Len(segs)][k].a = 1
    /\ dev.ctrl_meas = 172

(***************************************************************************)
(* The device handle: ADD_BME280 and BME280_calib                          *)
(***************************************************************************)
\* C22: no step of any driver operation changes ADD_BME280, and a step that
\* changes BME280_calib is a step of the calibration reads of a
\* BME280_begin whose chip-ID read returned 0x60: no step of
\* BME280_TestConnection, BME280_Configure, BME280_ForcedMeasurement,
\* BME280_Update, ReadTemperature, ReadHumidity or ReadPressure, and no step
\* of a BME280_begin that read another chip ID, changes either.
C22_HandleReadOnly ==
    [][ /\ ADD_BME280' = ADD_BME280
        /\ BME280_calib' # BME280_calib =>
              /\ op = "begin" /\ op' = "begin"
              /\ ChipIdRead = 96 /\ ChipIdRead' = 96
              /\ pc = "begin_cal"
              /\ retval' = retval
        /\ (op' # "begin" \/ (pc' = "idle" /\ retval' = 0)) =>
              BME280_calib' = BME280_calib ]_vars

\* a BME280_begin loaded the calibration, and the two reads called after it
\* found the handle as begin left it
C22_Witness ==
    /\ mpc = SeqPc(3) /\ op = "ReadPressure"
    /\ h.cycleOps = << "T", "P" >>
    /\ ADD_BME280 = dev.addr
    /\ BME280_calib = LoadedCalib(dev) /\ BME280_calib # ZeroCalib

(***************************************************************************)
(* The samples: adc_P, adc_T, adc_H and t_fine                             *)
(***************************************************************************)
\* the step is the call of a driver operation by the free caller
IsCall == mpc' # mpc
\* the caller has called nothing but ReadTemperature, ReadHumidity and
\* ReadPressure so far
OnlyReadsCalled == Len(h.cycleOps) = CallsMade
\* the reads made since the last ReadTemperature (all, when there was none)
ReadsSinceT ==
    LET s == h.cycleOps
        ts == {i \in 1 .. Len(s) : s[i] = "T"}
        last == IF ts = {} THEN 0 ELSE CHOOSE i \in ts : \A j \in ts : j <= i
    IN  SubSeq(s, last + 1, Len(s))
HasRead(k) == \E i \in 1 .. Len(ReadsSinceT) : ReadsSinceT[i] = k

\* C23: a step that changes adc_P, adc_T or adc_H is a step of BME280_Update
\* or of ReadTemperature, and a step that changes t_fine is a step of
\* ReadTemperature.  A call of ReadHumidity or ReadPressure leaves the bus
\* log empty and the sensor, adc_P, adc_T, adc_H and t_fine as they were.
\* Called again right after itself, or again among reads that followed the
\* last ReadTemperature, ReadHumidity stores the value it stored before,
\* and so does ReadPressure, which also returns what it returned before.
C23_SamplesStable ==
    [][ /\ << adc_P, adc_T, adc_H >>' # << adc_P, adc_T, adc_H >> =>
              IsCall /\ op' \in {"Update", "ReadTemperature"}
        /\ t_fine' # t_fine => IsCall /\ op' = "ReadTemperature"
        /\ (IsCall /\ op' \in {"ReadHumidity", "ReadPressure"}) =>
              /\ bus' = << >>
              /\ UNCHANGED << sampleVars, dev, nacks, temperatura >>
        /\ (IsCall /\ op' = "ReadHumidity"
             /\ (op = "ReadHumidity" \/ (OnlyReadsCalled /\ HasRead("H")))) =>
              umidade' = umidade /\ retval' = 1
        /\ (IsCall /\ op' = "ReadPressure" /\ op = "ReadPressure") =>
              pressao' = pressao /\ retval' = retval
        /\ (IsCall /\ op' = "ReadPressure"
             /\ OnlyReadsCalled /\ HasRead("P")) =>
              pressao' = pressao ]_vars

\* ReadTemperature, ReadPressure and ReadPressure again on a loaded
\* calibration: the second call found the pressure the first had stored
C23_Witness ==
    /\ mpc = SeqPc(3) /\ op = "ReadPressure" /\ retval = 1
    /\ h.cycleOps = << "T", "P", "P" >>
    /\ BME280_calib = LoadedCalib(dev)
    /\ adc_P > 0 /\ t_fine > 0
    /\ h.pres0 = pressao /\ pressao > 0

(***************************************************************************)
(* The width of temperature compensation                                   *)
(***************************************************************************)
Int32 == -2147483647 - 1 .. 2147483647

====
